---- MODULE Spec2Model ----
(***************************************************************************)
(* Build provisioning core of clusterfuzz                                  *)
(* (src/clusterfuzz/_internal/build_management/build_manager.py):          *)
(* the disk budget manager (_make_space / _evict_build), the build         *)
(* variants' setup() pipelines and the sentinel files REVISION,            *)
(* .timestamp and .partial_build.                                          *)
(*                                                                         *)
(* Sizes are counted in GiB.  Paths are sequences of path components.      *)
(***************************************************************************)
EXTENDS Integers, Sequences, FiniteSets, TLC

(***************************************************************************)
(* Program constants                                                       *)
(***************************************************************************)
MAX_EVICTED_BUILDS == 100

\* 10 * 1024 * 1024 * 1024 bytes, in GiB
MIN_FREE_DISK_SPACE_CHROMIUM == 10

\* 5 * 1024 * 1024 * 1024 bytes, in GiB
MIN_FREE_DISK_SPACE_DEFAULT == 5

(***************************************************************************)
(* Bounds of the model                                                     *)
(***************************************************************************)
\* largest .timestamp value found in a sibling build at start
MaxTs == 3

\* largest number of sibling builds sharing one .timestamp value
MaxPerKey == 1

\* free-space readings range from Margin GiB below the least threshold to
\* Margin GiB above the greatest
Margin == 1

\* largest requested_size of a _make_space call on its own, GiB
MaxRequested == 1

\* largest archive size and unpacked size of a build, GiB
MaxArchive == 0

\* largest build revision
MaxRev == 10

\* entry-point calls in one behaviour
MaxCalls == 2

\* Python's None among strings (an absent URL, no fuzz target)
None == "None"

\* An optional number or file content is a set: empty for None or a missing
\* file, otherwise holding the one value.
NoValue == {}

Some(x) == {x}

ValueOf(s) == CHOOSE x \in s : TRUE

Revisions == 9..MaxRev

FuzzTargets == {"target_a"}

(***************************************************************************)
(* Text of the REVISION file: str() and int()                              *)
(***************************************************************************)
Digits == <<"0", "1", "2", "3", "4", "5", "6", "7", "8", "9">>

IsDigit(c) == \E d \in 1..10 : Digits[d] = c

DigitVal(c) == (CHOOSE d \in 1..10 : Digits[d] = c) - 1

RECURSIVE str(_)
str(n) ==
    IF n < 10 THEN <<Digits[n + 1]>>
    ELSE str(n \div 10) \o <<Digits[(n % 10) + 1]>>

RECURSIVE DigitsValue(_)
DigitsValue(s) ==
    IF Len(s) = 0 THEN 0
    ELSE DigitsValue(SubSeq(s, 1, Len(s) - 1)) * 10 + DigitVal(s[Len(s)])

\* int(file_handle.read()), with ValueError mapped to -1 as in Build.exists
int_or_minus_one(s) ==
    IF Len(s) > 0 /\ \A i \in 1..Len(s) : IsDigit(s[i])
    THEN DigitsValue(s)
    ELSE -1

(***************************************************************************)
(* Paths                                                                   *)
(***************************************************************************)
BUILDS_DIR == <<"builds">>

IsPrefix(p, q) == Len(p) <= Len(q) /\ SubSeq(q, 1, Len(p)) = p

\* os.path.commonpath([p, q]): the longest common sequence of components
CommonPath(p, q) ==
    LET n == CHOOSE k \in 0..Len(p) :
                 /\ k <= Len(q)
                 /\ SubSeq(p, 1, k) = SubSeq(q, 1, k)
                 /\ \A j \in (k + 1)..Len(p) :
                        j > Len(q) \/ SubSeq(p, 1, j) # SubSeq(q, 1, j)
    IN  SubSeq(p, 1, n)

\* _base_build_dir: the job's base directory under BUILDS_DIR
JobDir == BUILDS_DIR \o <<"job">>

\* a sibling base directory of another job
SiblingDir == BUILDS_DIR \o <<"other_job">>

\* a plain file in the builds root
PlainFile == BUILDS_DIR \o <<"stray_file">>

FixedSubtrees ==
    { <<"custom">>, <<"revisions">>, <<"symbolized">>,
      <<"symbolized", "debug">>, <<"symbolized", "release">> }

\* RegularBuild.build_dir of the main build, base directory of an overlay
RevisionsDir == JobDir \o <<"revisions">>

\* fuzzer_utils.EXTRA_BUILD_DIR, lowercased: the overlay's build_dir name
ExtraDir == RevisionsDir \o <<"__extra_build">>

SymbolizedDir == JobDir \o <<"symbolized">>

ReleaseDir == SymbolizedDir \o <<"release">>

DebugDir == SymbolizedDir \o <<"debug">>

CustomDir == JobDir \o <<"custom">>

AllDirs ==
    {JobDir} \cup {JobDir \o s : s \in FixedSubtrees}
        \cup {RevisionsDir \o s : s \in FixedSubtrees} \cup {ExtraDir}

(***************************************************************************)
(* Directories of the job's tree                                           *)
(***************************************************************************)
\* a file that does not exist; a file that exists is Some(its content)
NoFile == NoValue

\* a directory that does not exist
Absent ==
    [exists |-> FALSE, revision |-> NoFile, timestamp |-> NoFile,
     partial |-> FALSE, archive |-> FALSE, payload |-> "nothing"]

\* a directory that exists and holds no file
EmptyDir == [Absent EXCEPT !.exists = TRUE]

\* shell.remove_directory(p, recreate): p and all below it are removed
remove_directory(f, p, recreate) ==
    [q \in DOMAIN f |->
        IF IsPrefix(p, q)
        THEN IF q = p /\ recreate THEN EmptyDir ELSE Absent
        ELSE f[q]]

\* shell.create_directory(p)
create_directory(f, p) ==
    IF f[p].exists THEN f ELSE [f EXCEPT ![p] = EmptyDir]

VARIABLES
    fs,           \* the job's directory tree: AllDirs -> directory
    siblings,     \* other base directories of the builds root, counted by .timestamp
    plainFiles,   \* number of plain files in the builds root
    chromium,     \* utils.is_chromium()
    now,          \* time.time()
    env,          \* the environment store
    pc,           \* the provisioner's position
    build,        \* the Build object being set up
    call,         \* the entry-point call in progress
    ms,           \* the frame of the _make_space call in progress
    run,          \* the setup() call in progress: its start, its result
    log,          \* what the setup() in progress has done, in order
    prev,         \* the previous setup() call and how it ended
    ncalls,       \* entry-point calls made
    answers,      \* what revisions.needs_update has answered so far
    fn            \* the function applied on its own: arguments, result

vars ==
    <<fs, siblings, plainFiles, chromium, now, env, pc, build, call, ms, run,
      log, prev, ncalls, answers, fn>>

(***************************************************************************)
(* Disk budget manager                                                     *)
(***************************************************************************)
\* the .timestamp values sibling builds are counted by
TsKeys == {NoFile} \cup {Some(t) : t \in 1..MaxTs}

min_free_disk_space ==
    IF chromium THEN MIN_FREE_DISK_SPACE_CHROMIUM
    ELSE MIN_FREE_DISK_SPACE_DEFAULT

\* shell.get_free_disk_space: a number of GiB, or None when the query fails
FreeReadings ==
    {NoValue} \cup
    {Some(n) : n \in (min_free_disk_space - Margin)
                        ..(min_free_disk_space + MaxRequested + Margin)}

\* a reading of .timestamp that puts a build without the file last; the
\* eviction properties tell `timestamp or 0` from it
last_used_time_missing_last(timestamp) ==
    IF timestamp = NoFile THEN MaxTs + 1 ELSE ValueOf(timestamp)

\* BaseBuild.last_used_time: `timestamp or 0`
last_used_time(timestamp) ==
    IF timestamp = NoFile THEN 0 ELSE ValueOf(timestamp)

\* `requested_size + min_free_disk_space < free_disk_space`
enough_free_space(requested_size, free_disk_space) ==
    requested_size + min_free_disk_space < ValueOf(free_disk_space)

\* os.listdir(builds_directory), each entry with os.path.isdir and the
\* content of its .timestamp
listdir_builds ==
    (IF fs[JobDir].exists
     THEN {[path |-> JobDir, isdir |-> TRUE, timestamp |-> fs[JobDir].timestamp]}
     ELSE {})
    \cup {[path |-> SiblingDir, isdir |-> TRUE, timestamp |-> k] :
              k \in {t \in TsKeys : siblings[t] > 0}}
    \cup (IF plainFiles > 0
          THEN {[path |-> PlainFile, isdir |-> FALSE, timestamp |-> NoFile]}
          ELSE {})

\* a protection test that compares the whole paths only; the eviction
\* properties tell the commonpath test of the program from it
is_current_build_exact(absolute_build_directory, current_build_dir) ==
    absolute_build_directory = current_build_dir

\* a test that protects no entry; the property of the two provisioners
\* tells the program from it
is_current_build_never(absolute_build_directory, current_build_dir) == FALSE

\* the commonpath test of _evict_build: the entry is current_build_dir or
\* a parent directory of it
is_current_build(absolute_build_directory, current_build_dir) ==
    CommonPath(absolute_build_directory, current_build_dir)
        = absolute_build_directory

\* the entries _evict_build compares: directories that are not protected
eviction_candidates(entries, current_build_dir) ==
    {e \in entries :
        e.isdir /\ ~is_current_build(e.path, current_build_dir)}

\* a scan that ends with a most recently used entry; the order of the
\* evictions tells the scan of the program from it
most_recently_used(candidates) ==
    {e \in candidates :
        \A o \in candidates :
            last_used_time(e.timestamp) >= last_used_time(o.timestamp)}

\* the entries the scan of _evict_build can end with: listdir's order is
\* arbitrary and a later entry replaces the choice only when strictly older
least_recently_used(candidates) ==
    {e \in candidates :
        \A o \in candidates :
            last_used_time(e.timestamp) <= last_used_time(o.timestamp)}

\* a loop with one pass more; the eviction bound tells the program from it
max_evictions_and_one == MAX_EVICTED_BUILDS + 1

\* the loop bound of _make_space
max_evictions == MAX_EVICTED_BUILDS

NoMakeSpace ==
    [requested_size |-> 0, current_build_dir |-> <<>>, i |-> 0,
     free |-> NoValue, result |-> "none", logged_error |-> FALSE,
     evicted |-> <<>>, deleted |-> {}, caller |-> "none"]

\* the frame of a call _make_space(requested_size, current_build_dir)
make_space_frame(requested_size, current_build_dir, caller) ==
    [NoMakeSpace EXCEPT !.requested_size = requested_size,
                        !.current_build_dir = current_build_dir,
                        !.result = "running", !.caller = caller]

\* BaseBuild.delete of the chosen entry
DeleteEntry(e) ==
    IF e.path = JobDir
    THEN /\ fs' = remove_directory(fs, JobDir, FALSE)
         /\ UNCHANGED <<siblings, plainFiles>>
    ELSE IF e.path = SiblingDir
    THEN /\ siblings' = [siblings EXCEPT ![e.timestamp] = @ - 1]
         /\ UNCHANGED <<fs, plainFiles>>
    ELSE /\ plainFiles' = plainFiles - 1
         /\ UNCHANGED <<fs, siblings>>

\* One pass of the loop of _make_space (with the _evict_build call it
\* makes), or the query after the loop once max_evictions passes are done.
MakeSpaceStep ==
    /\ pc = "make_space"
    /\ \E free \in FreeReadings :
        LET candidates ==
                eviction_candidates(listdir_builds, ms.current_build_dir)
        IN
        IF ms.i < max_evictions
        THEN IF free = NoValue
             THEN /\ ms' = [ms EXCEPT !.free = free, !.result = "False"]
                  /\ pc' = "make_space_done"
                  /\ UNCHANGED <<fs, siblings, plainFiles, log>>
             ELSE IF enough_free_space(ms.requested_size, free)
             THEN /\ ms' = [ms EXCEPT !.free = free, !.result = "True"]
                  /\ pc' = "make_space_done"
                  /\ UNCHANGED <<fs, siblings, plainFiles, log>>
             ELSE IF candidates = {}
             THEN /\ ms' = [ms EXCEPT !.free = free, !.result = "False",
                                      !.logged_error = TRUE]
                  /\ pc' = "make_space_done"
                  /\ UNCHANGED <<fs, siblings, plainFiles, log>>
             ELSE \E e \in least_recently_used(candidates) :
                  /\ DeleteEntry(e)
                  /\ ms' = [ms EXCEPT
                               !.free = free, !.i = @ + 1,
                               !.evicted = Append(@, e.timestamp),
                               !.deleted = @ \cup {e.path}]
                  /\ log' = Append(log, [ev |-> "evict", dir |-> run.unpack_dir,
                                          pass |-> ms.caller])
                  /\ pc' = "make_space"
        ELSE /\ IF free = NoValue
                THEN \* `int < None` raises TypeError
                     ms' = [ms EXCEPT !.free = free, !.result = "TypeError"]
                ELSE IF enough_free_space(ms.requested_size, free)
                THEN ms' = [ms EXCEPT !.free = free, !.result = "True"]
                ELSE ms' = [ms EXCEPT !.free = free, !.result = "False",
                                      !.logged_error = TRUE]
             /\ pc' = "make_space_done"
             /\ UNCHANGED <<fs, siblings, plainFiles, log>>
    /\ UNCHANGED <<chromium, now, env, build, call, run, prev, ncalls, answers, fn>>

(***************************************************************************)
(* Build objects                                                           *)
(***************************************************************************)
\* the URL of the archive of a bucket at a revision
Url(bucket, revision) == <<bucket, revision>>

\* fuzzer_utils.EXTRA_BUILD_DIR, the build_prefix of an overlay
EXTRA_BUILD_DIR == "__extra_build"

NoBuild ==
    [cls |-> "none", base_build_dir |-> <<>>, build_dir |-> <<>>,
     revision |-> 0, build_prefix |-> "", fuzz_target |-> None,
     unpack_everything |-> FALSE, build_url |-> NoValue,
     http_build_url |-> NoValue, release_build_url |-> NoValue,
     debug_build_url |-> NoValue, is_archive |-> FALSE,
     build_type |-> "release", fuzz_targets |-> None]

\* RegularBuild(base_build_dir, revision, build_url, build_prefix,
\*              fuzz_target, http_build_url)
RegularBuild(base_build_dir, revision, build_url, build_prefix, fuzz_target, http_build_url, unpack_everything) ==
    [NoBuild EXCEPT
        !.cls = "RegularBuild",
        !.base_build_dir = base_build_dir,
        !.build_dir =
            base_build_dir \o
                (IF build_prefix # "" THEN <<build_prefix>> ELSE <<"revisions">>),
        !.revision = revision,
        !.build_prefix = build_prefix,
        !.fuzz_target = fuzz_target,
        !.unpack_everything = unpack_everything,
        !.build_url = build_url,
        !.http_build_url = http_build_url]

\* SymbolizedBuild(base_build_dir, revision, release_build_url,
\*                 debug_build_url): no fuzz target is passed on
SymbolizedBuild(base_build_dir, revision, release_build_url, debug_build_url, unpack_everything) ==
    [NoBuild EXCEPT
        !.cls = "SymbolizedBuild",
        !.base_build_dir = base_build_dir,
        !.build_dir = base_build_dir \o <<"symbolized">>,
        !.revision = revision,
        !.unpack_everything = unpack_everything,
        !.release_build_url = release_build_url,
        !.debug_build_url = debug_build_url]

\* CustomBuild(base_build_dir, custom_binary_key, custom_binary_filename,
\*             custom_binary_revision)
CustomBuild(base_build_dir, revision, is_archive, unpack_everything) ==
    [NoBuild EXCEPT
        !.cls = "CustomBuild",
        !.base_build_dir = base_build_dir,
        !.build_dir = base_build_dir \o <<"custom">>,
        !.revision = revision,
        !.unpack_everything = unpack_everything,
        !.is_archive = is_archive]

\* Build.env_prefix
env_prefix(b) == IF b.build_prefix # "" THEN b.build_prefix \o "_" ELSE ""

EnvNames ==
    {"APP_REVISION", "APP_PATH", "APP_PATH_DEBUG", "APP_DIR", "BUILD_DIR",
     "BUILD_URL", "BUILD_KEY"}

EnvKeys == {"", EXTRA_BUILD_DIR \o "_"} \X EnvNames

\* environment.set_value(prefix + name, value)
set_value(e, prefix, name, value) ==
    [e EXCEPT ![<<prefix, name>>] = Some(value)]

\* the empty string, as a path
EmptyString == <<>>

(***************************************************************************)
(* Steps of the setup pipeline that act on the disk and the environment    *)
(***************************************************************************)
\* Build._delete_partial_build_file: Build.delete removes build_dir
delete_partial_build_file(f, b) ==
    IF f[b.build_dir].partial
    THEN remove_directory(f, b.build_dir, FALSE)
    ELSE f

\* _setup_build_directories: the base directory (with its parents) and
\* the five fixed subtrees are created when missing
setup_build_directories(f, base_build_dir) ==
    [q \in DOMAIN f |->
        IF /\ ~f[q].exists
           /\ \/ IsPrefix(q, base_build_dir)
              \/ q \in {base_build_dir \o t : t \in FixedSubtrees}
        THEN EmptyDir
        ELSE f[q]]

\* Build._pre_setup, on the disk
pre_setup_fs(f, b) ==
    setup_build_directories(delete_partial_build_file(f, b), b.base_build_dir)

\* a pre-setup that sets APP_REVISION and leaves the application paths
\* alone; the property of the failed setups tells the program from it
pre_setup_env_revision_only(e, b) ==
    set_value(e, env_prefix(b), "APP_REVISION", b.revision)

\* a pre-setup that resets the application paths and leaves APP_REVISION
\* alone; the cache-hit property tells the program from it
pre_setup_env_paths_only(e, b) ==
    set_value(
        set_value(e, env_prefix(b), "APP_PATH", EmptyString),
        env_prefix(b), "APP_PATH_DEBUG", EmptyString)

\* Build._pre_setup, on the environment
pre_setup_env(e, b) ==
    set_value(
        set_value(
            set_value(e, env_prefix(b), "APP_REVISION", b.revision),
            env_prefix(b), "APP_PATH", EmptyString),
        env_prefix(b), "APP_PATH_DEBUG", EmptyString)

\* an existence check that never finds the build; the repeated-setup
\* property tells the program from it
exists_never(f, b) == FALSE

\* Build.exists
exists(f, b) ==
    /\ f[b.build_dir].revision # NoFile
    /\ b.revision = int_or_minus_one(ValueOf(f[b.build_dir].revision))

\* the question revisions.needs_update(revision_file, revision) answers:
\* the content of the file and the revision
needs_update_question(f, b) == <<f[b.build_dir].revision, b.revision>>

\* revisions.needs_update(revision_file, revision), the results it can
\* give: an update when there is no revision file, none when the file holds
\* the revision; when the file holds another revision, what it answered to
\* the same question before and either result the first time
needs_update(f, b, answered) ==
    IF f[b.build_dir].revision = NoFile THEN {TRUE}
    ELSE IF ValueOf(f[b.build_dir].revision) = str(b.revision) THEN {FALSE}
    ELSE IF \E a \in answered : a.question = needs_update_question(f, b)
    THEN {a.result : a \in {x \in answered :
                                x.question = needs_update_question(f, b)}}
    ELSE BOOLEAN

\* a revision write that writes nothing; the REVISION property tells the
\* program from it
write_revision_skipped(f, b) == f

\* Build._write_revision: str(revision) goes to build_dir/REVISION
write_revision(f, b) ==
    [f EXCEPT ![b.build_dir].revision = Some(str(b.revision))]

\* a post-setup that writes REVISION whether or not the setup extracted;
\* the property of the REVISION file tells the program from it
post_setup_success_writes_always(f, b, update_revision, t) ==
    [write_revision(f, b) EXCEPT ![b.base_build_dir].timestamp = Some(t)]

\* Build._post_setup_success on the disk, at time t
post_setup_success(f, b, update_revision, t) ==
    LET f1 == IF update_revision THEN write_revision(f, b) ELSE f
    IN  [f1 EXCEPT ![b.base_build_dir].timestamp = Some(t)]

\* set_environment_vars: the walk finds the application binary in a
\* directory that holds unpacked files
app_found(f, dir) == f[dir].exists /\ f[dir].payload # "nothing"

\* Build._setup_application_path(build_dir, app_path)
setup_application_path(e, f, b, dir, app_path) ==
    LET e1 == set_value(e, env_prefix(b), app_path, EmptyString)
        e2 == set_value(e1, env_prefix(b), "APP_DIR", EmptyString)
        e3 == set_value(e2, env_prefix(b), "BUILD_DIR", dir)
    IN  IF app_found(f, dir)
        THEN set_value(
                 set_value(e3, env_prefix(b), app_path, dir \o <<"app">>),
                 env_prefix(b), "APP_DIR", dir)
        ELSE e3

(***************************************************************************)
(* setup(): bookkeeping of one call                                        *)
(***************************************************************************)
NoRun ==
    [start_time |-> 0, result |-> "none", unpack_dir |-> <<>>,
     unpack_url |-> NoValue, streaming |-> FALSE,
     allow_unpack_over_http |-> FALSE, compatible |-> NoValue,
     build_update |-> FALSE,
     had_partial |-> FALSE, revision_before |-> NoFile,
     partial_before |-> FALSE]

NoCall ==
    [entry |-> "none", stage |-> "none", extra |-> "unset", revision |-> 0,
     unpack_everything |-> FALSE]

Event(ev, dir) == [ev |-> ev, dir |-> dir, pass |-> ""]

\* the directories the archives of a build are unpacked into
unpack_dirs(b) ==
    IF b.cls = "SymbolizedBuild"
    THEN (IF b.release_build_url # NoValue
          THEN {b.build_dir \o <<"release">>} ELSE {})
         \cup (IF b.debug_build_url # NoValue
               THEN {b.build_dir \o <<"debug">>} ELSE {})
    ELSE {b.build_dir}

\* the constructor arguments of a build object
Params(b) == [b EXCEPT !.build_type = "release", !.fuzz_targets = None]

NoPrev ==
    [params |-> NoBuild, result |-> "none", left_partial |-> FALSE,
     returned |-> "none"]

\* an entry point that hands back every build that was set up, also when
\* no overlay was found for it; the overlay property tells
\* setup_regular_build from it
entry_result_without_overlay_check ==
    IF run.result = "raised" THEN "exception"
    ELSE IF run.result = "True" THEN "build"
    ELSE "None"

\* what the entry point hands to its caller once the last setup() of the
\* call has ended: the build, None, or the exception that went through
entry_result ==
    IF run.result = "raised" THEN "exception"
    ELSE IF run.result = "True"
            /\ (call.stage = "overlay" \/ call.extra = "unset")
    THEN "build"
    ELSE "None"

\* the main build was set up and the entry point goes on with the overlay
goes_on_with_overlay ==
    /\ call.entry = "setup_regular_build"
    /\ call.stage = "main"
    /\ call.extra = "found"
    /\ run.result = "True"

\* what is remembered of a setup() call that has returned
Summary ==
    [params |-> Params(build), result |-> run.result,
     left_partial |-> fs[build.build_dir].partial,
     returned |-> IF goes_on_with_overlay THEN "pending" ELSE entry_result]

\* the bookkeeping of a setup() call of b starting at time t
StartRun(b, t) ==
    [NoRun EXCEPT
        !.start_time = t,
        !.result = "running",
        !.had_partial = \E d \in unpack_dirs(b) : fs[d].partial,
        !.revision_before = fs[b.build_dir].revision,
        !.partial_before = fs[b.build_dir].partial]

\* an environment publish that goes over debug/ whether or not the build
\* has a debug URL; the release-only property tells the program from it
publish_debug_always(e, f, b) ==
    IF b.cls = "SymbolizedBuild"
    THEN setup_application_path(
             IF b.release_build_url # NoValue
             THEN set_value(
                      setup_application_path(
                          e, f, b, b.build_dir \o <<"release">>, "APP_PATH"),
                      "", "BUILD_URL", ValueOf(b.release_build_url))
             ELSE e,
             f, b, b.build_dir \o <<"debug">>, "APP_PATH_DEBUG")
    ELSE setup_application_path(e, f, b, b.build_dir, "APP_PATH")

\* the environment publish of a setup(): _setup_application_path over the
\* build's directories
publish(e, f, b) ==
    IF b.cls = "SymbolizedBuild"
    THEN LET e1 == IF b.release_build_url # NoValue
                   THEN set_value(
                            setup_application_path(
                                e, f, b, b.build_dir \o <<"release">>, "APP_PATH"),
                            "", "BUILD_URL", ValueOf(b.release_build_url))
                   ELSE e
         IN  IF b.debug_build_url # NoValue
             THEN setup_application_path(
                      e1, f, b, b.build_dir \o <<"debug">>, "APP_PATH_DEBUG")
             ELSE e1
    ELSE setup_application_path(e, f, b, b.build_dir, "APP_PATH")

\* an end of setup() that writes REVISION ahead of the environment publish;
\* the property of the phases tells the program from it
SetupSucceeds_revision_first(f, e, b, r, l, update_revision, t) ==
    /\ env' = publish(e, f, b)
    /\ fs' = post_setup_success(f, b, update_revision, t)
    /\ now' = t
    /\ build' = b
    /\ run' = [r EXCEPT !.result = "True"]
    /\ log' = l \o (IF update_revision
                    THEN <<Event("revision", b.build_dir)>> ELSE <<>>)
                \o <<Event("publish", b.build_dir),
                     Event("timestamp", b.base_build_dir)>>
    /\ pc' = "returned"

\* an end of setup() that updates .timestamp ahead of the environment
\* publish; the ordering property tells the program from it
SetupSucceeds_timestamp_first(f, e, b, r, l, update_revision, t) ==
    /\ env' = publish(e, f, b)
    /\ fs' = post_setup_success(f, b, update_revision, t)
    /\ now' = t
    /\ build' = b
    /\ run' = [r EXCEPT !.result = "True"]
    /\ log' = l \o <<Event("timestamp", b.base_build_dir),
                      Event("publish", b.build_dir)>>
    /\ pc' = "returned"

\* The end of every setup(): the environment publish, then
\* _post_setup_success, then `return True`.
SetupSucceeds(f, e, b, r, l, update_revision, t) ==
    \E t2 \in {t}, instrumented_library_paths \in BOOLEAN :
        /\ env' = publish(e, f, b)
        /\ fs' = post_setup_success(f, b, update_revision, t2)
        /\ now' = t2
        /\ build' = b
        /\ run' = [r EXCEPT !.result = "True"]
        /\ log' = l \o <<Event("publish", b.build_dir)>>
                    \o (IF update_revision
                        THEN <<Event("revision", b.build_dir)>> ELSE <<>>)
                    \o <<Event("timestamp", b.base_build_dir)>>
                    \o (IF instrumented_library_paths
                        THEN <<Event("patch_rpaths", b.build_dir)>>
                        ELSE <<>>)
        /\ pc' = "returned"

\* RegularBuild.setup, up to the call of _unpack_build or, when the build
\* exists, to its end
RegularBuild_setup(b, t) ==
    LET f1 == pre_setup_fs(fs, b)
        e1 == set_value(pre_setup_env(env, b), env_prefix(b), "BUILD_URL",
                        ValueOf(b.build_url))
        r  == StartRun(b, t)
        l  == <<Event("pre_setup", b.build_dir), Event("exists", b.build_dir)>>
    IN  IF ~exists(f1, b)
        THEN /\ fs' = f1
             /\ env' = e1
             /\ now' = t
             /\ build' = b
             /\ run' = [r EXCEPT !.build_update = TRUE,
                                 !.unpack_dir = b.build_dir,
                                 !.unpack_url = b.build_url]
             /\ log' = l
             /\ pc' = "unpack_build"
        ELSE SetupSucceeds(f1, e1, [b EXCEPT !.fuzz_targets = "from_dir"],
                           r, l, FALSE, t)

\* SymbolizedBuild.setup, up to the first _unpack_build of _unpack_builds
\* or, when the build exists, to its end
SymbolizedBuild_setup(b, t) ==
    LET f1 == pre_setup_fs(fs, b)
        e1 == pre_setup_env(env, b)
        r  == StartRun(b, t)
        l  == <<Event("pre_setup", b.build_dir), Event("exists", b.build_dir)>>
        first == IF b.release_build_url # NoValue THEN "release" ELSE "debug"
    IN  IF ~exists(f1, b)
        THEN /\ env' = e1
             /\ now' = t
             /\ \E cleared \in BOOLEAN :
                  IF ~cleared
                  THEN /\ fs' = f1
                       /\ build' = b
                       /\ run' = [r EXCEPT !.build_update = TRUE,
                                           !.result = "False"]
                       /\ log' = l
                       /\ pc' = "returned"
                  ELSE IF b.release_build_url = NoValue
                          /\ b.debug_build_url = NoValue
                  THEN /\ fs' = remove_directory(f1, b.build_dir, TRUE)
                       /\ build' = b
                       /\ run' = [r EXCEPT !.build_update = TRUE,
                                           !.result = "False"]
                       /\ log' = Append(l, Event("clear", b.build_dir))
                       /\ pc' = "returned"
                  ELSE /\ fs' = remove_directory(f1, b.build_dir, TRUE)
                       /\ build' = [b EXCEPT !.build_type = first]
                       /\ run' = [r EXCEPT
                                     !.build_update = TRUE,
                                     !.unpack_dir = b.build_dir \o <<first>>,
                                     !.unpack_url =
                                         IF first = "release"
                                         THEN b.release_build_url
                                         ELSE b.debug_build_url]
                       /\ log' = Append(l, Event("clear", b.build_dir))
                       /\ pc' = "unpack_build"
        ELSE SetupSucceeds(f1, e1, b, r, l, FALSE, t)

\* CustomBuild.setup, up to the call of _unpack_custom_build or, when no
\* update is needed, to its end
CustomBuild_setup(b, t) ==
    LET f1 == pre_setup_fs(fs, b)
        e1 == set_value(pre_setup_env(env, b), "", "BUILD_KEY", "custom_binary_key")
        r  == StartRun(b, t)
        l  == <<Event("pre_setup", b.build_dir), Event("exists", b.build_dir)>>
    IN  \E build_update \in needs_update(f1, b, answers) :
        /\ answers' =
               IF f1[b.build_dir].revision = NoFile THEN answers
               ELSE answers \cup {[question |-> needs_update_question(f1, b),
                                    result |-> build_update]}
        /\ IF build_update
           THEN /\ fs' = f1
                /\ env' = e1
                /\ now' = t
                /\ build' = b
                /\ run' = [r EXCEPT !.build_update = TRUE,
                                    !.unpack_dir = b.build_dir]
                /\ log' = l
                /\ pc' = "unpack_custom_build"
           ELSE SetupSucceeds(f1, e1, [b EXCEPT !.fuzz_targets = "from_dir"],
                              r, l, FALSE, t)

(***************************************************************************)
(* Entry points                                                            *)
(***************************************************************************)
\* setup_regular_build(revision, fuzz_target=...), for a revision whose
\* URL the listing holds: the main build is constructed and set up
SetupRegularBuild ==
    /\ pc = "idle"
    /\ ncalls < MaxCalls
    /\ \E revision \in Revisions, fuzz_target \in {None} \cup FuzzTargets,
          unpack_everything \in BOOLEAN,
          extra \in {"unset", "missing", "found"}, t \in {now + 1} :
        /\ call' = [entry |-> "setup_regular_build", stage |-> "main",
                    extra |-> extra, revision |-> revision,
                    unpack_everything |-> unpack_everything]
        /\ RegularBuild_setup(
               RegularBuild(JobDir, revision, Some(Url("release", revision)),
                            "", fuzz_target,
                            Some(Url("https_release", revision)),
                            unpack_everything),
               t)
    /\ ncalls' = ncalls + 1
    /\ UNCHANGED <<siblings, plainFiles, chromium, ms, prev, answers, fn>>

\* setup_regular_build, after the main build was set up and with
\* EXTRA_BUILD_BUCKET_PATH holding the revision: the overlay build is
\* constructed inside the main build's build_dir and set up
SetupExtraBuild ==
    /\ pc = "returned"
    /\ call.entry = "setup_regular_build"
    /\ call.stage = "main"
    /\ call.extra = "found"
    /\ run.result = "True"
    /\ \E t \in {now + 1} :
        RegularBuild_setup(
            RegularBuild(build.build_dir, call.revision,
                         Some(Url("extra", call.revision)), EXTRA_BUILD_DIR,
                         None, NoValue, call.unpack_everything),
            t)
    /\ call' = [call EXCEPT !.stage = "overlay"]
    /\ prev' = Summary
    /\ UNCHANGED <<siblings, plainFiles, chromium, ms, ncalls, answers, fn>>

\* setup_symbolized_builds(revision)
SetupSymbolizedBuilds ==
    /\ pc = "idle"
    /\ ncalls < MaxCalls
    /\ \E revision \in Revisions, unpack_everything \in BOOLEAN,
          release \in BOOLEAN, debug \in BOOLEAN, t \in {now + 1} :
        /\ call' = [entry |-> "setup_symbolized_builds", stage |-> "main",
                    extra |-> "unset", revision |-> revision,
                    unpack_everything |-> unpack_everything]
        /\ SymbolizedBuild_setup(
               SymbolizedBuild(
                   JobDir, revision,
                   IF release THEN Some(Url("sym_release", revision)) ELSE NoValue,
                   IF debug THEN Some(Url("sym_debug", revision)) ELSE NoValue,
                   unpack_everything),
               t)
    /\ ncalls' = ncalls + 1
    /\ UNCHANGED <<siblings, plainFiles, chromium, ms, prev, answers, fn>>

\* setup_custom_binary()
SetupCustomBinary ==
    /\ pc = "idle"
    /\ ncalls < MaxCalls
    /\ \E revision \in Revisions, unpack_everything \in BOOLEAN,
          is_archive \in BOOLEAN, t \in {now + 1} :
        /\ call' = [entry |-> "setup_custom_binary", stage |-> "main",
                    extra |-> "unset", revision |-> revision,
                    unpack_everything |-> unpack_everything]
        /\ CustomBuild_setup(
               CustomBuild(JobDir, revision, is_archive, unpack_everything), t)
    /\ ncalls' = ncalls + 1
    /\ UNCHANGED <<siblings, plainFiles, chromium, ms, prev, fn>>

\* the entry point returns to its caller
EntryReturns ==
    /\ pc = "returned"
    /\ ~(/\ call.entry = "setup_regular_build"
         /\ call.stage = "main"
         /\ call.extra = "found"
         /\ run.result = "True")
    /\ pc' = "idle"
    /\ prev' = Summary
    /\ build' = NoBuild
    /\ call' = NoCall
    /\ ms' = NoMakeSpace
    /\ run' = NoRun
    /\ log' = <<>>
    /\ UNCHANGED <<fs, siblings, plainFiles, chromium, now, env, ncalls, answers, fn>>

(***************************************************************************)
(* Build._unpack_build, step by step                                       *)
(***************************************************************************)
\* a choice of the HTTP path that does not ask for the HTTP URL; the
\* property of the choice tells the program from it
can_unpack_over_http_without_url(allow_unpack_over_http, http_build_url, compatible) ==
    allow_unpack_over_http /\ compatible

\* Build._open_build_archive: whether the archive is streamed over HTTP
can_unpack_over_http(allow_unpack_over_http, http_build_url, compatible) ==
    allow_unpack_over_http /\ http_build_url # NoValue /\ compatible

\* an order of the steps with the download ahead of the budget of the
\* archive size; the ordering property tells the program from it
step_after_download_first(step, streaming) ==
    CASE step = "clear" ->
             IF streaming THEN "budget_unpack" ELSE "download"
      [] step = "download" -> "budget_download"
      [] step = "budget_download" -> "budget_unpack"
      [] step = "budget_unpack" -> "unpack"
      [] step = "budget_custom" -> "custom_unpack"

\* The order of the steps of _unpack_build and
\* _download_and_open_build_archive after the build directory was cleared:
\* budget of the archive size, download, budget of the unpacked size,
\* unpack.  An archive streamed over HTTP has no download.
step_after(step, streaming) ==
    CASE step = "clear" ->
             IF streaming THEN "budget_unpack" ELSE "budget_download"
      [] step = "budget_download" -> "download"
      [] step = "download" -> "budget_unpack"
      [] step = "budget_unpack" -> "unpack"
      [] step = "budget_custom" -> "custom_unpack"

\* a debug extraction that keeps the tag of the release extraction; the
\* property of the tags tells the program from it
tagged_as_before(b) == b

\* SymbolizedBuild._unpack_builds: `self._build_type = 'debug'` ahead of the
\* extraction of the debug archive
tagged_for_debug(b) == [b EXCEPT !.build_type = "debug"]

\* `fuzz_target_to_unpack` of _unpack_build
fuzz_target_to_unpack(b) ==
    IF ~b.unpack_everything THEN b.fuzz_target ELSE None

\* the condition under which _unpack_build writes .partial_build
writes_partial_build_file(b) == ~b.unpack_everything

\* shell.remove_file(build_local_archive)
remove_archive(f, dir) == [f EXCEPT ![dir].archive = FALSE]

\* shell.clear_data_directories
clear_data_directories(f) == [d \in DOMAIN f |-> Absent]

\* `return False` of a setup() call
ReturnsFalse ==
    /\ run' = [run EXCEPT !.result = "False"]
    /\ pc' = "returned"

\* shell.remove_directory(build_dir, recreate=True), then the choice of
\* _open_build_archive
UnpackBuildClear ==
    /\ pc = "unpack_build"
    /\ \E cleared \in BOOLEAN, allow \in BOOLEAN, compatible \in BOOLEAN :
        LET http_build_url == IF build.cls = "RegularBuild"
                              THEN build.http_build_url ELSE NoValue
        IN
        IF cleared
        THEN /\ fs' = remove_directory(fs, run.unpack_dir, TRUE)
             /\ log' = Append(log, Event("clear", run.unpack_dir))
             /\ run' = [run EXCEPT
                           !.streaming =
                               can_unpack_over_http(allow, http_build_url,
                                                    compatible),
                           !.allow_unpack_over_http = allow,
                           \* `and` asks the archive handler only when the
                           \* setting and the URL are there
                           !.compatible =
                               IF allow /\ http_build_url # NoValue
                               THEN Some(compatible) ELSE NoValue]
             /\ pc' = step_after("clear", run'.streaming)
        ELSE /\ ReturnsFalse
             /\ UNCHANGED <<fs, log>>
    /\ UNCHANGED <<siblings, plainFiles, chromium, now, env, build, call, ms,
                   prev, ncalls, answers, fn>>

\* storage.get_object_size and the _make_space call for the archive
BudgetDownload ==
    /\ pc = "budget_download"
    /\ \E archive_size \in {NoValue} \cup {Some(n) : n \in 0..MaxArchive} :
        IF archive_size = NoValue
        THEN /\ pc' = step_after("budget_download", run.streaming)
             /\ UNCHANGED ms
        ELSE /\ ms' = make_space_frame(ValueOf(archive_size),
                                       build.base_build_dir, "budget_download")
             /\ pc' = "make_space"
    /\ UNCHANGED <<fs, siblings, plainFiles, chromium, now, env, build, call,
                   run, log, prev, ncalls, answers, fn>>

\* storage.copy_file_from and build_archive.open
Download ==
    /\ pc = "download"
    /\ log' = Append(log, Event("download", run.unpack_dir))
    /\ \E outcome \in {"ok", "copy_failed", "open_failed"}, left \in BOOLEAN :
        IF outcome = "ok"
        THEN /\ fs' = [fs EXCEPT ![run.unpack_dir].archive = TRUE]
             /\ pc' = step_after("download", run.streaming)
             /\ UNCHANGED run
        ELSE IF outcome = "copy_failed"
        THEN \* the exception leaves the generator before its try/finally
             /\ fs' = [fs EXCEPT ![run.unpack_dir].archive = left]
             /\ ReturnsFalse
        ELSE /\ fs' = remove_archive(fs, run.unpack_dir)
             /\ ReturnsFalse
    /\ UNCHANGED <<siblings, plainFiles, chromium, now, env, build, call, ms,
                   prev, ncalls, answers, fn>>

\* list_fuzz_targets, unpacked_size and the _make_space call for the
\* unpacked files
BudgetUnpack ==
    /\ pc = "budget_unpack"
    /\ \E failed \in BOOLEAN, extracted_size \in 0..MaxArchive :
        IF failed
        THEN /\ fs' = remove_archive(fs, run.unpack_dir)
             /\ ReturnsFalse
             /\ UNCHANGED <<build, ms>>
        ELSE /\ build' = IF ~build.unpack_everything
                         THEN [build EXCEPT !.fuzz_targets = "from_archive"]
                         ELSE build
             /\ ms' = make_space_frame(extracted_size, build.base_build_dir,
                                       "budget_unpack")
             /\ pc' = "make_space"
             /\ UNCHANGED <<fs, run>>
    /\ UNCHANGED <<siblings, plainFiles, chromium, now, env, call, log, prev,
                   ncalls, answers, fn>>

\* the caller of _make_space goes on: with the next step when space was
\* made, with log_fatal_and_exit when not
MakeSpaceReturns ==
    /\ pc = "make_space_done"
    /\ ms.caller # "none"
    /\ IF ms.result = "True"
       THEN /\ pc' = step_after(ms.caller, run.streaming)
            /\ UNCHANGED <<fs, siblings, plainFiles, run>>
       ELSE IF ms.result = "False"
       THEN /\ pc' = "exited"
            /\ run' = [run EXCEPT !.result = "exit"]
            /\ IF build.cls = "CustomBuild"
               THEN /\ fs' = remove_archive(fs, run.unpack_dir)
                    /\ UNCHANGED <<siblings, plainFiles>>
               ELSE /\ fs' = clear_data_directories(fs)
                    /\ siblings' = [k \in TsKeys |-> 0]
                    /\ plainFiles' = 0
       ELSE \* TypeError: caught by `except Exception` of _unpack_build,
            \* not caught in _unpack_custom_build
            /\ pc' = "returned"
            /\ IF build.cls = "CustomBuild"
               THEN /\ run' = [run EXCEPT !.result = "raised"]
                    /\ UNCHANGED fs
               ELSE /\ run' = [run EXCEPT !.result = "False"]
                    /\ fs' = IF ms.caller = "budget_unpack"
                             THEN remove_archive(fs, run.unpack_dir)
                             ELSE fs
            /\ UNCHANGED <<siblings, plainFiles>>
    /\ ms' = NoMakeSpace
    /\ UNCHANGED <<chromium, now, env, build, call, log, prev, ncalls, answers, fn>>

\* build.unpack, the removal of the local archive, the .partial_build
\* marker and the return of _unpack_build; in SymbolizedBuild._unpack_builds
\* the debug archive follows the release archive
Unpack ==
    /\ pc = "unpack"
    /\ log' = Append(log, Event("unpack", run.unpack_dir))
    /\ \E unpacked \in BOOLEAN :
        IF unpacked
        THEN /\ fs' = [fs EXCEPT
                          ![run.unpack_dir].payload =
                              IF fuzz_target_to_unpack(build) = None
                              THEN "everything"
                              ELSE fuzz_target_to_unpack(build),
                          ![run.unpack_dir].archive = FALSE,
                          ![run.unpack_dir].partial =
                              writes_partial_build_file(build)]
             /\ IF /\ build.cls = "SymbolizedBuild"
                   /\ run.unpack_dir = build.build_dir \o <<"release">>
                   /\ build.debug_build_url # NoValue
                THEN /\ build' = tagged_for_debug(build)
                     /\ run' = [run EXCEPT
                                   !.unpack_dir = build.build_dir \o <<"debug">>,
                                   !.unpack_url = build.debug_build_url]
                     /\ pc' = "unpack_build"
                ELSE /\ pc' = "finish"
                     /\ UNCHANGED <<build, run>>
        ELSE /\ fs' = [fs EXCEPT ![run.unpack_dir].payload = "incomplete",
                                 ![run.unpack_dir].archive = FALSE]
             /\ ReturnsFalse
             /\ UNCHANGED build
    /\ UNCHANGED <<siblings, plainFiles, chromium, now, env, call, ms, prev,
                   ncalls, answers, fn>>

\* the end of setup() after its archives were unpacked
Finish ==
    /\ pc = "finish"
    /\ SetupSucceeds(fs, env,
                     IF build.cls = "CustomBuild"
                     THEN [build EXCEPT !.fuzz_targets = "from_dir"]
                     ELSE build,
                     run, log, TRUE, now + 1)
    /\ UNCHANGED <<siblings, plainFiles, chromium, call, ms, prev, ncalls, answers, fn>>

(***************************************************************************)
(* CustomBuild._unpack_custom_build                                        *)
(***************************************************************************)
\* the build directory is cleared, the binary is fetched and, when it is
\* an archive, opened and budgeted
UnpackCustomBuild ==
    /\ pc = "unpack_custom_build"
    /\ \E outcome \in {"clear_failed", "blob_missing", "copy_raised",
                       "open_failed", "ok"},
          size \in 0..MaxArchive :
        LET f1 == remove_directory(fs, build.build_dir, TRUE)
            fetched == [f1 EXCEPT ![build.build_dir].archive = TRUE]
        IN
        IF outcome = "clear_failed"
        THEN /\ ReturnsFalse
             /\ UNCHANGED <<fs, log, ms>>
        ELSE IF outcome = "blob_missing"
        THEN /\ fs' = f1
             /\ log' = log \o <<Event("clear", build.build_dir),
                                Event("download", build.build_dir)>>
             /\ ReturnsFalse
             /\ UNCHANGED ms
        ELSE IF outcome = "copy_raised"
        THEN /\ fs' = f1
             /\ log' = log \o <<Event("clear", build.build_dir),
                                Event("download", build.build_dir)>>
             /\ run' = [run EXCEPT !.result = "raised"]
             /\ pc' = "returned"
             /\ UNCHANGED ms
        ELSE IF ~build.is_archive
        THEN /\ fs' = [f1 EXCEPT ![build.build_dir].payload = "binary"]
             /\ log' = log \o <<Event("clear", build.build_dir),
                                Event("download", build.build_dir)>>
             /\ pc' = "finish"
             /\ UNCHANGED <<run, ms>>
        ELSE IF outcome = "open_failed"
        THEN /\ fs' = fetched
             /\ log' = log \o <<Event("clear", build.build_dir),
                                Event("download", build.build_dir)>>
             /\ ReturnsFalse
             /\ UNCHANGED ms
        ELSE /\ fs' = fetched
             /\ log' = log \o <<Event("clear", build.build_dir),
                                Event("download", build.build_dir)>>
             /\ ms' = make_space_frame(size, build.base_build_dir,
                                       "budget_custom")
             /\ pc' = "make_space"
             /\ UNCHANGED run
    /\ UNCHANGED <<siblings, plainFiles, chromium, now, env, build, call,
                   prev, ncalls, answers, fn>>

\* build.unpack(self.build_dir, trusted=True) and the removal of the archive
CustomUnpack ==
    /\ pc = "custom_unpack"
    /\ log' = Append(log, Event("unpack", build.build_dir))
    /\ \E unpacked \in BOOLEAN :
        IF unpacked
        THEN /\ fs' = [fs EXCEPT ![build.build_dir].payload = "everything",
                                 ![build.build_dir].archive = FALSE]
             /\ pc' = "finish"
             /\ UNCHANGED run
        ELSE /\ fs' = [fs EXCEPT ![build.build_dir].payload = "incomplete"]
             /\ ReturnsFalse
    /\ UNCHANGED <<siblings, plainFiles, chromium, now, env, build, call, ms,
                   prev, ncalls, answers, fn>>

\* no function is applied on its own
NoFn == [name |-> "none"]

(***************************************************************************)
(* Entry-point dispatch                                                    *)
(***************************************************************************)
\* greatest revision setup_build is called with, when the dispatch is
\* applied on its own
MaxDispatchRevision == 2

\* Python truthiness of a value read from the environment or passed as
\* an argument: None is false, and so is the false value of its type
\* (False, 0, the empty string)
truthy(v, falsy) == v # NoValue /\ ValueOf(v) # falsy

\* the call _setup_build ends with
Selected(variant, bucket_path, revision, fuzz_target) ==
    [variant |-> variant, bucket_path |-> bucket_path, revision |-> revision,
     fuzz_target |-> fuzz_target]

\* a dispatch that looks at FUZZ_TARGET_BUILD_BUCKET_PATH ahead of
\* CUSTOM_BINARY; the dispatch-order property tells the program from it
setup_build_split_first(custom_binary, fuzz_target_build_bucket_path, revision, fuzz_target) ==
    IF truthy(fuzz_target_build_bucket_path, "")
    THEN Selected("_setup_split_targets_build", fuzz_target_build_bucket_path,
                  revision, fuzz_target)
    ELSE IF truthy(custom_binary, FALSE)
    THEN Selected("setup_custom_binary", NoValue, NoValue, None)
    ELSE IF truthy(revision, 0)
    THEN Selected("setup_regular_build", NoValue, revision, fuzz_target)
    ELSE Selected("setup_trunk_build", NoValue, NoValue, fuzz_target)

\* _setup_build(revision, fuzz_target), with CUSTOM_BINARY and
\* FUZZ_TARGET_BUILD_BUCKET_PATH as the environment holds them: the entry
\* point it returns the result of, and the arguments it passes
setup_build(custom_binary, fuzz_target_build_bucket_path, revision, fuzz_target) ==
    IF truthy(custom_binary, FALSE)
    THEN Selected("setup_custom_binary", NoValue, NoValue, None)
    ELSE IF truthy(fuzz_target_build_bucket_path, "")
    THEN Selected("_setup_split_targets_build", fuzz_target_build_bucket_path,
                  revision, fuzz_target)
    ELSE IF truthy(revision, 0)
    THEN Selected("setup_regular_build", NoValue, revision, fuzz_target)
    ELSE Selected("setup_trunk_build", NoValue, NoValue, fuzz_target)

\* a setup_build that leaves FUZZ_TARGET alone; the FUZZ_TARGET property
\* tells the program from it
fuzz_target_not_published(value, fuzz_target) == value

\* setup_build after _setup_build has returned: FUZZ_TARGET in the
\* environment, `if fuzz_target:` being false for None and for ''
publish_fuzz_target(value, fuzz_target) ==
    IF fuzz_target \notin {None, ""} THEN Some(fuzz_target) ELSE value

(***************************************************************************)
(* Split-target builds                                                     *)
(***************************************************************************)
\* most lines of a targets.list file
MaxTargets == 2

\* fuzz target names, as their parts around '@'
TargetNames == {<<"target_a">>, <<"target_b">>, <<"target_a", "shard">>}

\* _base_fuzz_target_name: "X" from "X@Y"
base_fuzz_target_name(target_name) == target_name[1]

\* the elements of a sequence that satisfy Keep, in their order
RECURSIVE Filter(_, _)
Filter(seq, keep) ==
    IF seq = <<>> THEN <<>>
    ELSE (IF Head(seq) \in keep THEN <<Head(seq)>> ELSE <<>>)
             \o Filter(Tail(seq), keep)

\* _get_targets_list: None when targets.list is missing or empty, else
\* its lines whose base name is among the listed blobs
get_targets_list(data, listed_targets) ==
    IF data = NoValue \/ ValueOf(data) = <<>>
    THEN NoValue
    ELSE Some(Filter(ValueOf(data),
                     {t \in TargetNames :
                          base_fuzz_target_name(t) \in listed_targets}))

\* _setup_split_targets_build up to its call of setup_regular_build: the
\* exception it raises or the target whose bucket path it goes on with.
\* `fuzz_target not in targets_list` raises TypeError when the list is None.
setup_split_targets_build(data, listed_targets, fuzz_target) ==
    IF fuzz_target = NoValue
    THEN [outcome |-> "BuildManagerError", target |-> ""]
    ELSE IF get_targets_list(data, listed_targets) = NoValue
    THEN [outcome |-> "TypeError", target |-> ""]
    ELSE IF \A i \in DOMAIN ValueOf(get_targets_list(data, listed_targets)) :
                ValueOf(get_targets_list(data, listed_targets))[i]
                    # ValueOf(fuzz_target)
    THEN [outcome |-> "BuildNotFoundError", target |-> ""]
    ELSE [outcome |-> "setup_regular_build",
          target |-> base_fuzz_target_name(ValueOf(fuzz_target))]

(***************************************************************************)
(* Listing of build URLs                                                   *)
(***************************************************************************)
\* most URLs of a bucket listing
MaxUrls == 3

\* the characters of the revision strings, in the order of their code
\* points: '.' is 46, the digits are 48 to 57, 'a' is 97
Chars == <<".", "0", "1", "2", "3", "4", "5", "6", "7", "8", "9", "a">>

\* ord(c), up to a monotone renumbering
ord(c) == CHOOSE i \in 1..Len(Chars) : Chars[i] = c

\* x.split('.')
RECURSIVE split(_)
split(x) ==
    IF \A i \in DOMAIN x : x[i] # "."
    THEN <<x>>
    ELSE LET dot == CHOOSE i \in DOMAIN x :
                        x[i] = "." /\ \A j \in 1..(i - 1) : x[j] # "."
         IN  <<SubSeq(x, 1, dot - 1)>> \o split(SubSeq(x, dot + 1, Len(x)))

\* int(part) raises no ValueError
is_int(part) == Len(part) > 0 /\ \A i \in DOMAIN part : IsDigit(part[i])

\* list(map(int, x.split('.'))) raises no ValueError
parses(x) == \A i \in DOMAIN split(x) : is_int(split(x)[i])

\* list(map(int, x.split('.')))
int_list(x) == [i \in DOMAIN split(x) |-> DigitsValue(split(x)[i])]

\* a < b for two lists of integers
RECURSIVE list_less(_, _)
list_less(a, b) ==
    IF a = <<>> THEN b # <<>>
    ELSE IF b = <<>> THEN FALSE
    ELSE IF Head(a) # Head(b) THEN Head(a) < Head(b)
    ELSE list_less(Tail(a), Tail(b))

\* a < b for two strings
str_less(a, b) ==
    list_less([i \in DOMAIN a |-> ord(a[i])], [i \in DOMAIN b |-> ord(b[i])])

\* whether x sorts ahead of y: by the integer lists or by the strings,
\* downwards when reverse
sorts_before(x, y, numeric, reverse) ==
    IF numeric
    THEN (IF reverse THEN list_less(int_list(y), int_list(x))
          ELSE list_less(int_list(x), int_list(y)))
    ELSE (IF reverse THEN str_less(y, x) ELSE str_less(x, y))

\* x put into a sorted sequence, behind the elements it is equal to
RECURSIVE insert_sorted(_, _, _, _)
insert_sorted(x, seq, numeric, reverse) ==
    IF seq = <<>> THEN <<x>>
    ELSE IF sorts_before(x, Head(seq), numeric, reverse) THEN <<x>> \o seq
    ELSE <<Head(seq)>> \o insert_sorted(x, Tail(seq), numeric, reverse)

\* sorted(seq, reverse=reverse[, key=...]): a stable sort
RECURSIVE sorted(_, _, _)
sorted(seq, numeric, reverse) ==
    IF seq = <<>> THEN <<>>
    ELSE insert_sorted(seq[Len(seq)],
                       sorted(SubSeq(seq, 1, Len(seq) - 1), numeric, reverse),
                       numeric, reverse)

\* a URL of the listing: the start of its file name and the revision in it
BuildUrl(prefix, revision) == <<prefix, revision>>

\* re.match of the bucket path's template, "build-(<revision>)"
matches(build_url) == build_url[1] = "build-"

\* match.group(2)
revision_of(build_url) == build_url[2]

\* the keys of filename_by_revision_dict in the order of their insertion
RECURSIVE dict_keys(_)
dict_keys(build_urls) ==
    IF build_urls = <<>> THEN <<>>
    ELSE dict_keys(SubSeq(build_urls, 1, Len(build_urls) - 1))
             \o (IF matches(build_urls[Len(build_urls)])
                 THEN <<revision_of(build_urls[Len(build_urls)])>>
                 ELSE <<>>)

\* a duplicate test that never finds one, so that the later URL of a
\* revision replaces the earlier; the BadState property tells the program
\* from it
duplicate_revision_never(build_urls) == FALSE

\* `if revision in filename_by_revision_dict` is true for some URL
duplicate_revision(build_urls) ==
    \E i, j \in DOMAIN dict_keys(build_urls) :
        i # j /\ dict_keys(build_urls)[i] = dict_keys(build_urls)[j]

\* a sort that always compares the revisions as strings; the ordering
\* property tells the program from it
sort_build_urls_as_strings(build_urls, reverse) ==
    IF duplicate_revision(build_urls)
    THEN [outcome |-> "BadStateError", urls |-> <<>>]
    ELSE [outcome |-> "returned",
          urls |-> [i \in DOMAIN dict_keys(build_urls) |->
                       BuildUrl("build-",
                                sorted(dict_keys(build_urls), FALSE, reverse)[i])]]

\* _sort_build_urls_by_revision(build_urls, bucket_path, reverse)
sort_build_urls_by_revision(build_urls, reverse) ==
    IF duplicate_revision(build_urls)
    THEN [outcome |-> "BadStateError", urls |-> <<>>]
    ELSE LET numeric == \A i \in DOMAIN dict_keys(build_urls) :
                            parses(dict_keys(build_urls)[i])
             sorted_revisions == sorted(dict_keys(build_urls), numeric, reverse)
         IN  [outcome |-> "returned",
              urls |-> [i \in DOMAIN sorted_revisions |->
                           BuildUrl("build-", sorted_revisions[i])]]

\* get_build_urls_list(bucket_path, reverse), build_urls being the listing
\* of the bucket
get_build_urls_list(bucket_path, build_urls, reverse) ==
    IF bucket_path = NoValue \/ build_urls = <<>>
    THEN [outcome |-> "returned", urls |-> <<>>]
    ELSE sort_build_urls_by_revision(build_urls, reverse)

(***************************************************************************)
(* The keys file: the listing of a bucket, cached on the worker            *)
(***************************************************************************)
\* most calls of get_build_urls_list for one bucket path
MaxListCalls == 3

\* a keys file that is written anew by every call; the cache property
\* tells the program from it
keys_file_rewritten(keys_file, listed) == Some(listed)

\* the keys file after `if not os.path.exists(keys_file_path)`: written
\* from what storage.list_blobs gave when it did not exist, kept otherwise
keys_file_after(keys_file, listed) ==
    IF keys_file = NoFile THEN Some(listed) ELSE keys_file

\* the result of a call in which storage.list_blobs raised
ListingRaised == [outcome |-> "listing_raised", urls |-> <<>>]

(***************************************************************************)
(* Latest revision and trunk builds                                        *)
(***************************************************************************)
\* len(DEFAULT_BUILD_BUCKET_PATH_ENV_VARS): the most bucket paths
\* _get_build_bucket_paths hands to _get_latest_revision
MaxBucketPaths == 3

\* most URLs in the listing of one bucket, when the latest revision is
\* looked for
MaxListed == 2

\* revisions.convert_revision_to_integer, for a revision of decimal digits
convert_revision_to_integer(revision) == DigitsValue(revision)

\* revisions.find_build_url(bucket_path, build_url_list, revision): the
\* URL of the list whose revision is the given one, None when there is none
find_build_url(build_url_list, revision) ==
    LET found == {i \in DOMAIN build_url_list :
                      /\ matches(build_url_list[i])
                      /\ convert_revision_to_integer(
                             revision_of(build_url_list[i])) = revision}
    IN  IF found = {} THEN NoValue
        ELSE Some(build_url_list[CHOOSE i \in found :
                                     \A j \in found : i <= j])

\* the loop of _get_latest_revision over the URLs of the first bucket: the
\* revision of the first URL that every other bucket has a URL for
RECURSIVE first_common_revision(_, _)
first_common_revision(main_urls_list, other_urls_lists) ==
    IF main_urls_list = <<>> THEN NoValue
    ELSE IF ~matches(Head(main_urls_list))
    THEN first_common_revision(Tail(main_urls_list), other_urls_lists)
    ELSE IF \A k \in DOMAIN other_urls_lists :
                find_build_url(
                    other_urls_lists[k],
                    convert_revision_to_integer(
                        revision_of(Head(main_urls_list)))) # NoValue
    THEN Some(convert_revision_to_integer(revision_of(Head(main_urls_list))))
    ELSE first_common_revision(Tail(main_urls_list), other_urls_lists)

\* a search that goes through the first bucket from its lowest revision;
\* the latest-revision property tells the program from it
get_latest_revision_from_lowest(listings) ==
    LET urls_lists == [k \in DOMAIN listings |->
                          get_build_urls_list(Some("bucket_path"), listings[k],
                                              FALSE).urls]
    IN  IF \E k \in DOMAIN urls_lists : urls_lists[k] = <<>> THEN NoValue
        ELSE IF urls_lists = <<>> THEN NoValue
        ELSE first_common_revision(Head(urls_lists), Tail(urls_lists))

\* _get_latest_revision(bucket_paths), listings[k] being the listing of
\* the k-th bucket path
get_latest_revision(listings) ==
    LET urls_lists == [k \in DOMAIN listings |->
                          get_build_urls_list(Some("bucket_path"), listings[k],
                                              TRUE).urls]
    IN  IF \E k \in DOMAIN urls_lists : urls_lists[k] = <<>> THEN NoValue
        ELSE IF urls_lists = <<>> THEN NoValue
        ELSE first_common_revision(Head(urls_lists), Tail(urls_lists))

\* setup_trunk_build: the revision it calls setup_regular_build with, None
\* when it returns None before
setup_trunk_build(listings) ==
    IF listings = <<>> THEN NoValue
    ELSE get_latest_revision(listings)

(***************************************************************************)
(* RPATH patcher                                                           *)
(***************************************************************************)
\* most entries of the RPATH a binary starts with
MaxRpaths == 2

\* most instrumented library paths
MaxInstrumented == 2

\* calls of _patch_rpath on one binary
MaxPatches == 2

\* search paths, as their components: relative to the binary or absolute
SearchPaths ==
    { <<"$ORIGIN", "lib">>, <<"$ORIGIN", "instrumented">>,
      <<"usr", "lib">>, <<"opt", "instrumented">> }

\* '$ORIGIN' in rpath
has_origin(rpath) == \E i \in DOMAIN rpath : rpath[i] = "$ORIGIN"

\* get_rpaths(binary_path): no entry for a binary without an RPATH tag,
\* else the tag's text split on ':'
get_rpaths(tag) == IF tag = NoValue THEN <<>> ELSE ValueOf(tag)

\* set_rpaths(binary_path, rpaths): the tag holds ':'.join(rpaths), which
\* splits back into rpaths, and into one empty entry when rpaths is empty
set_rpaths(rpaths) == IF rpaths = <<>> THEN Some(<< <<>> >>) ELSE Some(rpaths)

\* the RPATHs that are relative to the build
RECURSIVE relative_rpaths(_)
relative_rpaths(rpaths) ==
    IF rpaths = <<>> THEN <<>>
    ELSE (IF has_origin(Head(rpaths)) THEN <<Head(rpaths)>> ELSE <<>>)
             \o relative_rpaths(Tail(rpaths))

\* the loop over reversed(instrumented_library_paths): each path that is
\* not among rpaths is inserted at position 0
RECURSIVE insert_additional(_, _)
insert_additional(rpaths, instrumented_library_paths) ==
    IF instrumented_library_paths = <<>> THEN rpaths
    ELSE LET n == Len(instrumented_library_paths)
             additional_path == instrumented_library_paths[n]
             rest == SubSeq(instrumented_library_paths, 1, n - 1)
         IN  insert_additional(
                 IF \E i \in DOMAIN rpaths : rpaths[i] = additional_path
                 THEN rpaths
                 ELSE <<additional_path>> \o rpaths,
                 rest)

\* Build._patch_rpath(binary_path, instrumented_library_paths): the RPATH
\* tag it leaves on the binary
patch_rpath(tag, instrumented_library_paths) ==
    set_rpaths(insert_additional(relative_rpaths(get_rpaths(tag)),
                                 instrumented_library_paths))

(***************************************************************************)
(* Environment publish of a symbolized build                               *)
(***************************************************************************)
\* the file names the walk of set_environment_vars looks for: APP_NAME,
\* args.gn and the llvm-symbolizer executable
WalkedNames == {"app_name", "args.gn", "llvm-symbolizer"}

\* release_build_dir and debug_build_dir of a symbolized build, FUZZER_DIR
release_build_dir == <<"builds", "job", "symbolized", "release">>
debug_build_dir == <<"builds", "job", "symbolized", "debug">>
fuzzer_dir == <<"fuzzers", "fuzzer">>

WalkedDirs == {release_build_dir, debug_build_dir, fuzzer_dir}

\* environment.get_default_tool_path('llvm-symbolizer')
default_tool_path == <<"default", "llvm-symbolizer">>

\* the variables the publish of a symbolized build writes
PublishNames ==
    {"APP_PATH", "APP_PATH_DEBUG", "APP_DIR", "BUILD_DIR", "GN_ARGS_PATH",
     "LLVM_SYMBOLIZER_PATH", "BUILD_URL"}

PublishKeys == {""} \X PublishNames

\* the first of the search directories whose walk comes on the file name
RECURSIVE first_directory_with(_, _, _)
first_directory_with(search_directories, files, filename) ==
    IF search_directories = <<>> THEN NoValue
    ELSE IF filename \in files[Head(search_directories)]
    THEN Some(Head(search_directories))
    ELSE first_directory_with(Tail(search_directories), files, filename)

\* set_environment_vars(search_directories, app_path): the first file named
\* APP_NAME sets app_path and APP_DIR, the first args.gn sets GN_ARGS_PATH,
\* the first llvm-symbolizer sets LLVM_SYMBOLIZER_PATH unless
\* USE_DEFAULT_LLVM_SYMBOLIZER is set
set_environment_vars(e, search_directories, files, app_path, use_default_llvm_symbolizer) ==
    LET app == first_directory_with(search_directories, files, "app_name")
        gn == first_directory_with(search_directories, files, "args.gn")
        sym == first_directory_with(search_directories, files,
                                    "llvm-symbolizer")
        e1 == IF app # NoValue
              THEN set_value(
                       set_value(e, "", app_path,
                                 ValueOf(app) \o <<"app_name">>),
                       "", "APP_DIR", ValueOf(app))
              ELSE e
        e2 == IF gn # NoValue
              THEN set_value(e1, "", "GN_ARGS_PATH",
                             ValueOf(gn) \o <<"args.gn">>)
              ELSE e1
    IN  IF sym # NoValue /\ ~use_default_llvm_symbolizer
        THEN set_value(e2, "", "LLVM_SYMBOLIZER_PATH",
                       ValueOf(sym) \o <<"llvm-symbolizer">>)
        ELSE e2

\* a publish that does not initialize the variables before the walk; the
\* property of the second publish tells the program from it
setup_application_path_stale(e, build_dir, app_path, files, fuzzer_directory, use_default_llvm_symbolizer) ==
    set_environment_vars(
        set_value(e, "", "BUILD_DIR", build_dir),
        <<build_dir>> \o (IF fuzzer_directory # NoValue
                          THEN <<ValueOf(fuzzer_directory)>> ELSE <<>>),
        files, app_path, use_default_llvm_symbolizer)

\* Build._setup_application_path(build_dir, app_path) with all the
\* variables it writes: they are initialized, then set by the walk of
\* build_dir and of FUZZER_DIR when there is one
setup_application_path_walk(e, build_dir, app_path, files, fuzzer_directory, use_default_llvm_symbolizer) ==
    LET e1 == set_value(e, "", app_path, EmptyString)
        e2 == set_value(e1, "", "APP_DIR", EmptyString)
        e3 == set_value(e2, "", "BUILD_DIR", build_dir)
        e4 == set_value(e3, "", "GN_ARGS_PATH", EmptyString)
        e5 == set_value(e4, "", "LLVM_SYMBOLIZER_PATH", default_tool_path)
    IN  set_environment_vars(
            e5,
            <<build_dir>> \o (IF fuzzer_directory # NoValue
                              THEN <<ValueOf(fuzzer_directory)>> ELSE <<>>),
            files, app_path, use_default_llvm_symbolizer)

(***************************************************************************)
(* Two provisioners on one builds root                                     *)
(***************************************************************************)
\* most setup() calls of one provisioner
MaxRaceSetups == 1

Provisioners == {1, 2}

\* the base directory of a third job, which no provisioner works in
ThirdDir == BUILDS_DIR \o <<"third_job">>

\* the base directories under BUILDS_DIR
RaceDirs == {JobDir, SiblingDir, ThirdDir}

\* _base_build_dir of each provisioner's job
base_build_dir_of(p) == IF p = 1 THEN JobDir ELSE SiblingDir

\* a base directory: whether it exists, and the content of its .timestamp
NoBaseDir == [exists |-> FALSE, timestamp |-> NoFile]

\* os.listdir(builds_directory) of the shared root
listdir_shared(builds) ==
    {[path |-> d, isdir |-> TRUE, timestamp |-> builds[d].timestamp] :
         d \in {x \in RaceDirs : builds[x].exists}}

\* the provisioner is between _pre_setup and _post_setup_success
materializing(prov) == prov.pc \in {"make_space", "unpack", "post_setup"}

(***************************************************************************)
(* Budget and unpack of one archive                                        *)
(***************************************************************************)
\* greatest size of the files of one fuzz target, or of the files all
\* targets share, in an archive
MaxFileSize == 2

\* the fuzz targets of an archive
ArchiveTargets == {"target_a", "target_b"}

\* the size of the files build.unpack(fuzz_target=...) extracts: all files
\* of the archive for None, else the shared files and those of the target
extracted_files_size(archive, fuzz_target) ==
    IF fuzz_target = None
    THEN archive.shared + archive.of_target["target_a"]
             + archive.of_target["target_b"]
    ELSE archive.shared + archive.of_target[fuzz_target]

\* build.unpacked_size(fuzz_target=...): the size of the files an unpack
\* for the same fuzz_target extracts
unpacked_size(archive, fuzz_target) ==
    extracted_files_size(archive, fuzz_target)

\* `extracted_size = build.unpacked_size(fuzz_target=self.fuzz_target)` of
\* _unpack_build: the size asked of _make_space
extracted_size(archive, b) == unpacked_size(archive, b.fuzz_target)

(***************************************************************************)
(* One build object: setup() calls and fuzz_targets reads                  *)
(***************************************************************************)
\* most calls and reads on one build object
MaxObjectCalls == 3

\* the lists of fuzz targets an archive or a directory walk can give
TargetLists == {<<>>, <<"target_a">>}

\* the `fuzz_targets` property: the list is computed from build_dir when it
\* is None or empty and everything was unpacked
fuzz_targets_read(fuzz_targets, unpack_everything, from_dir) ==
    IF (fuzz_targets = NoValue \/ fuzz_targets = Some(<<>>))
           /\ unpack_everything
    THEN Some(from_dir)
    ELSE fuzz_targets

\* `assert self._fuzz_targets is None` of the cache-hit path
assertion_holds(fuzz_targets) == fuzz_targets = NoValue

(***************************************************************************)
(* setup_regular_build: from the listing to the build object               *)
(***************************************************************************)
\* a URL lookup that falls back to the first URL of the listing when none
\* holds the revision; the property of the early return tells
\* _get_build_url from it
get_build_url_first_listed(bucket_path, build_urls, revision) ==
    LET listed == get_build_urls_list(bucket_path, build_urls, TRUE).urls
    IN  IF listed = <<>> THEN NoValue
        ELSE IF find_build_url(listed, revision) = NoValue
        THEN Some(Head(listed))
        ELSE find_build_url(listed, revision)

\* _get_build_url(bucket_path, revision, job_type), build_urls being the
\* listing of the bucket: None when get_build_urls_list gives no URL or
\* find_build_url finds none for the revision
get_build_url(bucket_path, build_urls, revision) ==
    LET listed == get_build_urls_list(bucket_path, build_urls, TRUE).urls
    IN  IF listed = <<>> THEN NoValue
        ELSE find_build_url(listed, revision)

\* the job's tree once a build of the revision was set up at time t
tree_with_build(revision, t) ==
    LET b == RegularBuild(JobDir, revision, NoValue, "", None, NoValue, FALSE)
        f == setup_build_directories([d \in AllDirs |-> Absent],
                                     b.base_build_dir)
    IN  post_setup_success(
            [f EXCEPT ![b.build_dir].payload = "everything"], b, TRUE, t)

(***************************************************************************)
(* get_rpaths: the chrpath process and what comes back                     *)
(***************************************************************************)
\* the text chrpath prints when the binary has no RPATH and no RUNPATH
NoTagMessage == "no rpath or runpath tag found"

\* a chrpath process: its exit status and the texts on its two streams
ChrpathRun(failed, stdout, stderr) ==
    [failed |-> failed, stdout |-> stdout, stderr |-> stderr]

\* a get_rpaths that looks for the message in what chrpath wrote to its
\* standard error; the property of the failed reads tells the program
\* from it
get_rpaths_call_reads_stderr(chrpath, process, tag) ==
    IF ~chrpath THEN [outcome |-> "BuildManagerError", rpaths |-> <<>>]
    ELSE IF process.failed
    THEN IF process.stderr = NoTagMessage
         THEN [outcome |-> "returned", rpaths |-> <<>>]
         ELSE [outcome |-> "CalledProcessError", rpaths |-> <<>>]
    ELSE [outcome |-> "returned", rpaths |-> get_rpaths(tag)]

\* get_rpaths(binary_path), chrpath being whether the tool was found and
\* process the run of `chrpath -l`: check_output pipes the standard error
\* and e.output is what the process wrote to its standard output
get_rpaths_call(chrpath, process, tag) ==
    IF ~chrpath THEN [outcome |-> "BuildManagerError", rpaths |-> <<>>]
    ELSE IF process.failed
    THEN IF process.stdout = NoTagMessage
         THEN [outcome |-> "returned", rpaths |-> <<>>]
         ELSE [outcome |-> "CalledProcessError", rpaths |-> <<>>]
    ELSE [outcome |-> "returned", rpaths |-> get_rpaths(tag)]

(***************************************************************************)
(* Specifications                                                          *)
(***************************************************************************)
\* builds roots with at most MaxPerKey siblings for each .timestamp value
SmallRoots == [TsKeys -> 0..MaxPerKey]

\* a builds root with more siblings than one _make_space call may delete
CrowdedRoot ==
    [k \in TsKeys |->
        IF k = Some(1) THEN MAX_EVICTED_BUILDS
        ELSE IF k = Some(2) THEN 1 ELSE 0]

\* the builds root a provisioning starts from: one sibling build that was
\* never set up successfully (no .timestamp)
StartRoots == {[k \in TsKeys |-> IF k = NoFile THEN 1 ELSE 0]}

\* a worker that has provisioned nothing yet
Init ==
    /\ fs = [d \in AllDirs |-> Absent]
    /\ siblings \in StartRoots
    /\ plainFiles = 1
    /\ chromium = FALSE
    /\ now = 0
    /\ env = [k \in EnvKeys |-> NoValue]
    /\ pc = "idle"
    /\ build = NoBuild
    /\ call = NoCall
    /\ ms = NoMakeSpace
    /\ run = NoRun
    /\ log = <<>>
    /\ prev = NoPrev
    /\ ncalls = 0
    /\ answers = {}
    /\ fn = NoFn

Next ==
    \/ SetupRegularBuild
    \/ SetupExtraBuild
    \/ SetupSymbolizedBuilds
    \/ SetupCustomBinary
    \/ EntryReturns
    \/ UnpackBuildClear
    \/ BudgetDownload
    \/ Download
    \/ BudgetUnpack
    \/ MakeSpaceStep
    \/ MakeSpaceReturns
    \/ Unpack
    \/ Finish
    \/ UnpackCustomBuild
    \/ CustomUnpack

Spec == Init /\ [][Next]_vars

\* One call _make_space(requested_size, current_build_dir) on its own, for
\* every builds root, the main build or an overlay as current build
MakeSpaceInit ==
    /\ fs \in {setup_build_directories(
                   [[d \in AllDirs |-> Absent] EXCEPT
                       ![JobDir] = [EmptyDir EXCEPT !.timestamp = ts]],
                   JobDir) :
                   ts \in {NoFile, Some(1)}}
    /\ siblings \in SmallRoots \cup {CrowdedRoot}
    /\ plainFiles \in 0..1
    /\ chromium \in BOOLEAN
    /\ now = 0
    /\ env = [k \in EnvKeys |-> NoValue]
    /\ pc = "make_space"
    /\ build = NoBuild
    /\ call = NoCall
    /\ \E requested_size \in 0..MaxRequested,
          current_build_dir \in {JobDir, RevisionsDir} :
        ms = make_space_frame(requested_size, current_build_dir, "none")
    /\ run = NoRun
    /\ log = <<>>
    /\ prev = NoPrev
    /\ ncalls = 0
    /\ answers = {}
    /\ fn = NoFn

MakeSpaceNext == MakeSpaceStep

MakeSpaceSpec == MakeSpaceInit /\ [][MakeSpaceNext]_vars

\* a _make_space call that is not suspended for ever: the interpreter goes
\* on with the next pass of the loop
MakeSpaceFairSpec ==
    MakeSpaceInit /\ [][MakeSpaceNext]_vars /\ WF_vars(MakeSpaceNext)

\* a worker that is setting up no build: the state of every variable but
\* fn while a function is applied on its own
AtRest ==
    /\ fs = [d \in AllDirs |-> Absent]
    /\ siblings = [k \in TsKeys |-> 0]
    /\ plainFiles = 0
    /\ chromium = FALSE
    /\ now = 0
    /\ env = [k \in EnvKeys |-> NoValue]
    /\ pc = "idle"
    /\ build = NoBuild
    /\ call = NoCall
    /\ ms = NoMakeSpace
    /\ run = NoRun
    /\ log = <<>>
    /\ prev = NoPrev
    /\ ncalls = 0
    /\ answers = {}

StaysAtRest ==
    UNCHANGED <<fs, siblings, plainFiles, chromium, now, env, pc, build, call,
                ms, run, log, prev, ncalls, answers>>

\* _setup_build on its own: CUSTOM_BINARY unset, False or True,
\* FUZZ_TARGET_BUILD_BUCKET_PATH unset, empty or a path, the revision None
\* or a number, the fuzz target None or a name
DispatchInit ==
    /\ AtRest
    /\ \E custom_binary \in {NoValue, Some(FALSE), Some(TRUE)},
          fuzz_target_build_bucket_path \in
              {NoValue, Some(""), Some("gs://bucket/%TARGET%/([0-9]+).zip")},
          revision \in {NoValue} \cup {Some(n) : n \in 0..MaxDispatchRevision},
          fuzz_target \in {None} \cup FuzzTargets :
        fn = [name |-> "_setup_build",
              custom_binary |-> custom_binary,
              fuzz_target_build_bucket_path |-> fuzz_target_build_bucket_path,
              revision |-> revision,
              fuzz_target |-> fuzz_target,
              ret |-> NoValue]

\* the call of _setup_build
SetupBuild ==
    /\ fn.name = "_setup_build"
    /\ fn.ret = NoValue
    /\ fn' = [fn EXCEPT !.ret =
                 Some(setup_build(fn.custom_binary,
                                  fn.fuzz_target_build_bucket_path,
                                  fn.revision, fn.fuzz_target))]
    /\ StaysAtRest

DispatchNext == SetupBuild

DispatchSpec == DispatchInit /\ [][DispatchNext]_vars

\* sequences over S of length at most n
SeqsUpTo(S, n) == UNION {[1..k -> S] : k \in 0..n}

\* _setup_split_targets_build on its own: targets.list missing, empty or
\* with up to MaxTargets lines, any set of listed blobs, the fuzz target
\* None or a name
SplitTargetsInit ==
    /\ AtRest
    /\ \E data \in {NoValue} \cup {Some(l) : l \in SeqsUpTo(TargetNames, MaxTargets)},
          listed_targets \in SUBSET {"target_a", "target_b"},
          fuzz_target \in {NoValue} \cup {Some(t) : t \in TargetNames} :
        fn = [name |-> "_setup_split_targets_build",
              data |-> data,
              listed_targets |-> listed_targets,
              fuzz_target |-> fuzz_target,
              ret |-> NoValue]

\* the call of _setup_split_targets_build
SetupSplitTargetsBuild ==
    /\ fn.name = "_setup_split_targets_build"
    /\ fn.ret = NoValue
    /\ fn' = [fn EXCEPT !.ret =
                 Some(setup_split_targets_build(fn.data, fn.listed_targets,
                                                fn.fuzz_target))]
    /\ StaysAtRest

SplitTargetsNext == SetupSplitTargetsBuild

SplitTargetsSpec == SplitTargetsInit /\ [][SplitTargetsNext]_vars

\* the revision strings of the listings: plain and dotted numbers, two
\* spellings of one number, and two that are no numbers
RevisionStrings ==
    { <<"9">>, <<"1", "0">>, <<"0", "9">>, <<"1", ".", "2">>,
      <<"1", ".", "1", "0">>, <<"a">>, <<"1", ".">> }

\* the URLs of the listings: one for each revision string, and one whose
\* name does not match the template
ListedUrls ==
    {BuildUrl("build-", r) : r \in RevisionStrings}
        \cup {BuildUrl("notes-", <<"9">>)}

\* get_build_urls_list on its own: any listing of up to MaxUrls URLs, in
\* any order, and either direction
UrlsListInit ==
    /\ AtRest
    /\ \E bucket_path \in {NoValue, Some("gs://bucket/build-([0-9.a]+)")},
          build_urls \in SeqsUpTo(ListedUrls, MaxUrls),
          reverse \in BOOLEAN :
        fn = [name |-> "get_build_urls_list",
              bucket_path |-> bucket_path,
              build_urls |-> build_urls,
              reverse |-> reverse,
              ret |-> NoValue]

\* the call of get_build_urls_list
GetBuildUrlsList ==
    /\ fn.name = "get_build_urls_list"
    /\ fn.ret = NoValue
    /\ fn' = [fn EXCEPT !.ret =
                 Some(get_build_urls_list(fn.bucket_path, fn.build_urls,
                                          fn.reverse))]
    /\ StaysAtRest

UrlsListNext == GetBuildUrlsList

UrlsListSpec == UrlsListInit /\ [][UrlsListNext]_vars

\* the URLs of the buckets a latest revision is looked for in: three
\* revisions of decimal digits, and a name that does not match
LatestUrls ==
    {BuildUrl("build-", r) : r \in {<<"9">>, <<"1", "0">>, <<"1", "1">>}}
        \cup {BuildUrl("notes-", <<"9">>)}

\* the listings of a bucket: up to MaxListed objects, no name twice
Listings ==
    {l \in SeqsUpTo(LatestUrls, MaxListed) :
         \A i, j \in DOMAIN l : i # j => l[i] # l[j]}

\* setup_trunk_build on its own: up to MaxBucketPaths bucket paths, each
\* with any listing
LatestRevisionInit ==
    /\ AtRest
    /\ \E listings \in SeqsUpTo(Listings, MaxBucketPaths) :
        fn = [name |-> "setup_trunk_build",
              listings |-> listings,
              latest_revision |-> NoValue,
              regular_build_revision |-> NoValue,
              ret |-> NoValue]

\* the call of setup_trunk_build, up to its call of setup_regular_build
SetupTrunkBuild ==
    /\ fn.name = "setup_trunk_build"
    /\ fn.ret = NoValue
    /\ fn' = [fn EXCEPT
                 !.latest_revision = get_latest_revision(fn.listings),
                 !.regular_build_revision = setup_trunk_build(fn.listings),
                 !.ret = Some("called")]
    /\ StaysAtRest

LatestRevisionNext == SetupTrunkBuild

LatestRevisionSpec == LatestRevisionInit /\ [][LatestRevisionNext]_vars

\* get_build_urls_list called again and again for one bucket path, on App
\* Engine or off it, while the bucket changes and the keys file may be
\* removed
KeysFileInit ==
    /\ AtRest
    /\ \E app_engine \in BOOLEAN, reverse \in BOOLEAN, remote \in Listings :
        fn = [name |-> "keys_file",
              app_engine |-> app_engine,
              reverse |-> reverse,
              remote |-> remote,
              keys_file |-> NoFile,
              calls |-> 0,
              first |-> NoValue,
              last |-> NoValue,
              last_listed |-> FALSE]

\* one call of get_build_urls_list(bucket_path, reverse): on App Engine the
\* bucket is listed; off it the keys file is written when it does not
\* exist, storage.list_blobs raising after any number of paths, and the
\* URLs are read from the keys file
GetBuildUrlsListCall ==
    /\ fn.name = "keys_file"
    /\ fn.calls < MaxListCalls
    /\ \E written \in {NoValue} \cup {Some(k) : k \in 0..Len(fn.remote)} :
        LET lists == fn.app_engine \/ fn.keys_file = NoFile
            raised == written # NoValue
            file == IF fn.app_engine THEN fn.keys_file
                    ELSE keys_file_after(
                             fn.keys_file,
                             IF raised
                             THEN SubSeq(fn.remote, 1, ValueOf(written))
                             ELSE fn.remote)
            result == IF raised THEN ListingRaised
                      ELSE get_build_urls_list(
                               Some("bucket_path"),
                               IF fn.app_engine THEN fn.remote ELSE ValueOf(file),
                               fn.reverse)
        IN  /\ raised => lists
            /\ fn' = [fn EXCEPT
                         !.keys_file = file,
                         !.calls = fn.calls + 1,
                         !.first = IF fn.calls = 0 THEN Some(result) ELSE fn.first,
                         !.last = Some(result),
                         !.last_listed = lists]
    /\ StaysAtRest

\* the bucket gets another content
BucketChanges ==
    /\ fn.name = "keys_file"
    /\ \E remote \in Listings \ {fn.remote} :
        fn' = [fn EXCEPT !.remote = remote]
    /\ StaysAtRest

\* the keys file is removed, as at the end of a task; the calls that
\* follow are the calls of another task
KeysFileRemoved ==
    /\ fn.name = "keys_file"
    /\ fn.keys_file # NoFile
    /\ fn' = [fn EXCEPT !.keys_file = NoFile, !.calls = 0,
                        !.first = NoValue, !.last = NoValue,
                        !.last_listed = FALSE]
    /\ StaysAtRest

KeysFileNext ==
    \/ GetBuildUrlsListCall
    \/ BucketChanges
    \/ KeysFileRemoved

KeysFileSpec == KeysFileInit /\ [][KeysFileNext]_vars

\* _patch_rpath called again and again on one binary with one list of
\* instrumented library paths: the binary has no RPATH tag or any RPATH of
\* up to MaxRpaths entries
PatchRpathInit ==
    /\ AtRest
    /\ \E tag \in {NoValue} \cup {Some(r) : r \in SeqsUpTo(SearchPaths, MaxRpaths) \ {<<>>}},
          instrumented_library_paths \in
              SeqsUpTo(SearchPaths, MaxInstrumented) \ {<<>>} :
        fn = [name |-> "_patch_rpath",
              instrumented_library_paths |-> instrumented_library_paths,
              tag |-> tag,
              patches |-> 0,
              after_first |-> NoValue]

\* one call of _patch_rpath
PatchRpath ==
    /\ fn.name = "_patch_rpath"
    /\ fn.patches < MaxPatches
    /\ fn' = [fn EXCEPT
                 !.tag = patch_rpath(fn.tag, fn.instrumented_library_paths),
                 !.patches = fn.patches + 1,
                 !.after_first =
                     IF fn.patches = 0
                     THEN patch_rpath(fn.tag, fn.instrumented_library_paths)
                     ELSE fn.after_first]
    /\ StaysAtRest

PatchRpathNext == PatchRpath

PatchRpathSpec == PatchRpathInit /\ [][PatchRpathNext]_vars

\* setup_build(revision, fuzz_target) as a whole: FUZZ_TARGET is unset or
\* names another target before the call
SetupBuildInit ==
    /\ AtRest
    /\ \E custom_binary \in {NoValue, Some(TRUE)},
          fuzz_target_build_bucket_path \in
              {NoValue, Some("gs://bucket/%TARGET%/([0-9]+).zip")},
          revision \in {Some(n) : n \in 0..MaxDispatchRevision},
          fuzz_target \in {None, ""} \cup FuzzTargets,
          before \in {NoValue, Some("target_b")} :
        fn = [name |-> "setup_build",
              custom_binary |-> custom_binary,
              fuzz_target_build_bucket_path |-> fuzz_target_build_bucket_path,
              revision |-> revision,
              fuzz_target |-> fuzz_target,
              before |-> before,
              FUZZ_TARGET |-> before,
              stage |-> "called",
              selected |-> NoValue,
              result |-> "none"]

\* _setup_build: the entry point it selects hands back a build or None,
\* raises, or ends the worker
SetupBuildDispatches ==
    /\ fn.name = "setup_build"
    /\ fn.stage = "called"
    /\ \E result \in {"build", "None", "exception", "exit"} :
        fn' = [fn EXCEPT
                  !.selected =
                      Some(setup_build(fn.custom_binary,
                                       fn.fuzz_target_build_bucket_path,
                                       fn.revision, fn.fuzz_target)),
                  !.result = result,
                  !.stage = IF result \in {"build", "None"}
                            THEN "dispatched" ELSE "left"]
    /\ StaysAtRest

\* the rest of setup_build: FUZZ_TARGET, then `return result`
SetupBuildReturns ==
    /\ fn.name = "setup_build"
    /\ fn.stage = "dispatched"
    /\ fn' = [fn EXCEPT
                 !.FUZZ_TARGET = publish_fuzz_target(fn.FUZZ_TARGET,
                                                     fn.fuzz_target),
                 !.stage = "returned"]
    /\ StaysAtRest

SetupBuildNext ==
    \/ SetupBuildDispatches
    \/ SetupBuildReturns

SetupBuildSpec == SetupBuildInit /\ [][SetupBuildNext]_vars

\* the environment publish of SymbolizedBuild.setup on its own: either URL
\* may be missing, each directory holds any of the walked files, FUZZER_DIR
\* and USE_DEFAULT_LLVM_SYMBOLIZER are set or not; _pre_setup has emptied
\* APP_PATH and APP_PATH_DEBUG
PublishInit ==
    /\ AtRest
    /\ \E release_build_url \in {NoValue, Some(<<"release", 9>>)},
          debug_build_url \in {NoValue, Some(<<"debug", 9>>)},
          files \in [WalkedDirs -> SUBSET WalkedNames],
          fuzzer_directory \in {NoValue, Some(fuzzer_dir)},
          use_default_llvm_symbolizer \in BOOLEAN :
        /\ fuzzer_directory = NoValue => files[fuzzer_dir] = {}
        /\ fn = [name |-> "SymbolizedBuild.setup",
                 release_build_url |-> release_build_url,
                 debug_build_url |-> debug_build_url,
                 files |-> files,
                 fuzzer_directory |-> fuzzer_directory,
                 use_default_llvm_symbolizer |-> use_default_llvm_symbolizer,
                 stage |-> "release",
                 published |-> <<>>,
                 environment |->
                     [k \in PublishKeys |->
                         IF k[2] \in {"APP_PATH", "APP_PATH_DEBUG"}
                         THEN Some(EmptyString) ELSE NoValue],
                 after_release |-> [k \in PublishKeys |-> NoValue]]

\* `if self.release_build_url:` of SymbolizedBuild.setup
PublishRelease ==
    /\ fn.name = "SymbolizedBuild.setup"
    /\ fn.stage = "release"
    /\ LET e == IF fn.release_build_url # NoValue
                THEN set_value(
                         setup_application_path_walk(
                             fn.environment, release_build_dir, "APP_PATH",
                             fn.files, fn.fuzzer_directory,
                             fn.use_default_llvm_symbolizer),
                         "", "BUILD_URL", ValueOf(fn.release_build_url))
                ELSE fn.environment
       IN  fn' = [fn EXCEPT
                     !.stage = "debug",
                     !.environment = e,
                     !.after_release = e,
                     !.published =
                         IF fn.release_build_url # NoValue
                         THEN Append(fn.published,
                                     <<"APP_PATH", release_build_dir>>)
                         ELSE fn.published]
    /\ StaysAtRest

\* `if self.debug_build_url:` of SymbolizedBuild.setup
PublishDebug ==
    /\ fn.name = "SymbolizedBuild.setup"
    /\ fn.stage = "debug"
    /\ fn' = [fn EXCEPT
                 !.stage = "post_setup",
                 !.environment =
                     IF fn.debug_build_url # NoValue
                     THEN setup_application_path_walk(
                              fn.environment, debug_build_dir,
                              "APP_PATH_DEBUG", fn.files,
                              fn.fuzzer_directory,
                              fn.use_default_llvm_symbolizer)
                     ELSE fn.environment,
                 !.published =
                     IF fn.debug_build_url # NoValue
                     THEN Append(fn.published,
                                 <<"APP_PATH_DEBUG", debug_build_dir>>)
                     ELSE fn.published]
    /\ StaysAtRest

\* _post_setup_success and `return True`
PublishReturns ==
    /\ fn.name = "SymbolizedBuild.setup"
    /\ fn.stage = "post_setup"
    /\ fn' = [fn EXCEPT !.stage = "returned"]
    /\ StaysAtRest

PublishNext ==
    \/ PublishRelease
    \/ PublishDebug
    \/ PublishReturns

PublishSpec == PublishInit /\ [][PublishNext]_vars

\* two provisioners, each in its own job, on one builds root that holds
\* any of the three base directories, stamped or not
RaceInit ==
    /\ AtRest
    /\ \E builds \in [RaceDirs ->
                        {NoBaseDir} \cup
                        {[exists |-> TRUE, timestamp |-> k] : k \in TsKeys}] :
        fn = [name |-> "two_provisioners",
              builds |-> builds,
              clock |-> MaxTs,
              prov |-> [p \in Provisioners |->
                           [pc |-> "idle", setups |-> 0, requested_size |-> 0,
                            timestamp_before |-> NoFile]],
              evictions |-> {}]

\* Build._pre_setup of provisioner p: _setup_build_directories creates the
\* base directory; the extraction and its _make_space call follow
RacePreSetup(p) ==
    /\ fn.name = "two_provisioners"
    /\ fn.prov[p].pc = "idle"
    /\ fn.prov[p].setups < MaxRaceSetups
    /\ \E requested_size \in 0..MaxRequested :
        fn' = [fn EXCEPT
                  !.builds[base_build_dir_of(p)].exists = TRUE,
                  !.prov[p] = [pc |-> "make_space",
                               setups |-> fn.prov[p].setups + 1,
                               requested_size |-> requested_size,
                               timestamp_before |->
                                   fn.builds[base_build_dir_of(p)].timestamp]]
    /\ StaysAtRest

\* one pass of the loop of _make_space of provisioner p, with the
\* _evict_build call it makes
RaceMakeSpacePass(p) ==
    /\ fn.name = "two_provisioners"
    /\ fn.prov[p].pc = "make_space"
    /\ \E free \in FreeReadings :
        LET candidates ==
                eviction_candidates(listdir_shared(fn.builds),
                                    base_build_dir_of(p))
        IN
        IF free = NoValue
        THEN fn' = [fn EXCEPT !.prov[p].pc = "failed"]
        ELSE IF enough_free_space(fn.prov[p].requested_size, free)
        THEN fn' = [fn EXCEPT !.prov[p].pc = "unpack"]
        ELSE IF candidates = {}
        THEN fn' = [fn EXCEPT !.prov[p].pc = "failed"]
        ELSE \E e \in least_recently_used(candidates) :
                 fn' = [fn EXCEPT
                           !.builds[e.path] = NoBaseDir,
                           !.evictions =
                               @ \cup {[by |-> p, path |-> e.path,
                                        timestamp |-> e.timestamp,
                                        unstamped |->
                                            \E c \in candidates :
                                                c.timestamp = NoFile,
                                        at_work |->
                                            {q \in Provisioners :
                                                /\ base_build_dir_of(q) = e.path
                                                /\ materializing(fn.prov[q])}]}]
    /\ StaysAtRest

\* build.unpack of provisioner p: the files go to the build directory,
\* which is made again when it is gone; the unpack can fail
RaceUnpack(p) ==
    /\ fn.name = "two_provisioners"
    /\ fn.prov[p].pc = "unpack"
    /\ \E unpacked \in BOOLEAN :
        IF unpacked
        THEN fn' = [fn EXCEPT
                       !.builds[base_build_dir_of(p)].exists = TRUE,
                       !.prov[p].pc = "post_setup"]
        ELSE fn' = [fn EXCEPT !.prov[p].pc = "failed"]
    /\ StaysAtRest

\* Build._post_setup_success of provisioner p: time.time() goes to
\* base_build_dir/.timestamp
RacePostSetup(p) ==
    /\ fn.name = "two_provisioners"
    /\ fn.prov[p].pc = "post_setup"
    /\ fn' = [fn EXCEPT
                 !.clock = fn.clock + 1,
                 !.builds[base_build_dir_of(p)] =
                     [exists |-> TRUE, timestamp |-> Some(fn.clock + 1)],
                 !.prov[p].pc = "idle"]
    /\ StaysAtRest

\* setup() of provisioner p returns False
RaceSetupFails(p) ==
    /\ fn.name = "two_provisioners"
    /\ fn.prov[p].pc = "failed"
    /\ fn' = [fn EXCEPT !.prov[p].pc = "idle"]
    /\ StaysAtRest

RaceNext ==
    \E p \in Provisioners :
        \/ RacePreSetup(p)
        \/ RaceMakeSpacePass(p)
        \/ RaceUnpack(p)
        \/ RacePostSetup(p)
        \/ RaceSetupFails(p)

RaceSpec == RaceInit /\ [][RaceNext]_vars

\* the budget and the unpack of _unpack_build on their own: the
\* unpack-everything setting is on or off, a fuzz target is requested or
\* not, the archive holds shared files and the files of two targets
BudgetAndUnpackInit ==
    /\ AtRest
    /\ \E unpack_everything \in BOOLEAN,
          fuzz_target \in {None} \cup FuzzTargets,
          shared \in 0..MaxFileSize,
          of_target \in [ArchiveTargets -> 0..MaxFileSize] :
        fn = [name |-> "_unpack_build",
              unpack_everything |-> unpack_everything,
              fuzz_target |-> fuzz_target,
              archive |-> [shared |-> shared, of_target |-> of_target],
              stage |-> "budget",
              requested_size |-> NoValue,
              unpacked |-> NoValue]

\* `_make_space(extracted_size, ...)`
BudgetExtractedSize ==
    /\ fn.name = "_unpack_build"
    /\ fn.stage = "budget"
    /\ fn' = [fn EXCEPT
                 !.stage = "unpack",
                 !.requested_size = Some(extracted_size(fn.archive, fn))]
    /\ StaysAtRest

\* `build.unpack(build_dir, fuzz_target=fuzz_target_to_unpack, ...)`
UnpackFiles ==
    /\ fn.name = "_unpack_build"
    /\ fn.stage = "unpack"
    /\ fn' = [fn EXCEPT
                 !.stage = "unpacked",
                 !.unpacked =
                     Some(extracted_files_size(fn.archive,
                                               fuzz_target_to_unpack(fn)))]
    /\ StaysAtRest

BudgetAndUnpackNext ==
    \/ BudgetExtractedSize
    \/ UnpackFiles

BudgetAndUnpackSpec == BudgetAndUnpackInit /\ [][BudgetAndUnpackNext]_vars

\* one RegularBuild object, constructed with _fuzz_targets = None, in a
\* build directory that holds REVISION of its revision or not and
\* .partial_build or not
BuildObjectInit ==
    /\ AtRest
    /\ \E unpack_everything \in BOOLEAN, has_revision \in BOOLEAN,
          partial \in BOOLEAN :
        fn = [name |-> "RegularBuild",
              unpack_everything |-> unpack_everything,
              fuzz_targets |-> NoValue,
              has_revision |-> has_revision,
              partial |-> partial,
              calls |-> <<>>,
              assertion_failed |-> FALSE]

\* RegularBuild.setup on the object: _pre_setup removes a partial build,
\* then either the archive is unpacked or, when the build exists, the
\* list is asserted to be None and filled from build_dir
ObjectSetup ==
    /\ fn.name = "RegularBuild"
    /\ Len(fn.calls) < MaxObjectCalls
    /\ ~fn.assertion_failed
    /\ \E listed \in BOOLEAN, unpacked \in BOOLEAN,
          from_archive \in TargetLists, from_dir \in TargetLists :
        LET build_exists == fn.has_revision /\ ~fn.partial
            lists == listed /\ ~fn.unpack_everything
        IN
        IF ~build_exists
        THEN IF listed /\ unpacked
             THEN fn' = [fn EXCEPT
                            !.fuzz_targets =
                                IF lists THEN Some(from_archive) ELSE @,
                            !.has_revision = TRUE,
                            !.partial = ~fn.unpack_everything,
                            !.calls = Append(@, "setup: True")]
             ELSE fn' = [fn EXCEPT
                            !.fuzz_targets =
                                IF lists THEN Some(from_archive) ELSE @,
                            !.has_revision = FALSE,
                            !.partial = FALSE,
                            !.calls = Append(@, "setup: False")]
        ELSE IF assertion_holds(fn.fuzz_targets)
        THEN fn' = [fn EXCEPT
                       !.fuzz_targets = Some(from_dir),
                       !.calls = Append(@, "setup: True")]
        ELSE fn' = [fn EXCEPT
                       !.assertion_failed = TRUE,
                       !.calls = Append(@, "setup: AssertionError")]
    /\ StaysAtRest

\* a read of the fuzz_targets property of the object
ObjectFuzzTargets ==
    /\ fn.name = "RegularBuild"
    /\ Len(fn.calls) < MaxObjectCalls
    /\ ~fn.assertion_failed
    /\ \E from_dir \in TargetLists :
        fn' = [fn EXCEPT
                  !.fuzz_targets =
                      fuzz_targets_read(fn.fuzz_targets, fn.unpack_everything,
                                        from_dir),
                  !.calls = Append(@, "fuzz_targets")]
    /\ StaysAtRest

BuildObjectNext ==
    \/ ObjectSetup
    \/ ObjectFuzzTargets

BuildObjectSpec == BuildObjectInit /\ [][BuildObjectNext]_vars

\* setup_regular_build from its first line: the bucket path unset or set,
\* any listing of the bucket, a revision the listing may hold, and the
\* job's tree empty or holding the build an earlier call set up
RegularEntryInit ==
    /\ siblings = [k \in TsKeys |-> 0]
    /\ plainFiles = 0
    /\ chromium = FALSE
    /\ now = 1
    /\ pc = "idle"
    /\ build = NoBuild
    /\ call = NoCall
    /\ ms = NoMakeSpace
    /\ run = NoRun
    /\ log = <<>>
    /\ prev = NoPrev
    /\ ncalls = 0
    /\ answers = {}
    /\ \E earlier \in {NoValue, Some(9)} :
        /\ fs = IF earlier = NoValue THEN [d \in AllDirs |-> Absent]
                ELSE tree_with_build(ValueOf(earlier), 1)
        /\ env = IF earlier = NoValue THEN [k \in EnvKeys |-> NoValue]
                 ELSE set_value([k \in EnvKeys |-> NoValue], "",
                                "APP_REVISION", ValueOf(earlier))
    /\ \E bucket_path \in {NoValue, Some("gs://bucket/build-([0-9]+)")},
          build_urls \in Listings, revision \in {9, 10, 11} :
        fn = [name |-> "setup_regular_build",
              bucket_path |-> bucket_path,
              build_urls |-> build_urls,
              revision |-> revision,
              fs_before |-> fs,
              env_before |-> env,
              ret |-> NoValue]

\* setup_regular_build, up to `if not build_url: return None` when no URL
\* was found, and into RegularBuild.setup otherwise
SetupRegularBuildCall ==
    /\ fn.name = "setup_regular_build"
    /\ fn.ret = NoValue
    /\ pc = "idle"
    /\ LET build_url == get_build_url(fn.bucket_path, fn.build_urls,
                                      fn.revision)
       IN  IF build_url = NoValue
           THEN /\ fn' = [fn EXCEPT !.ret = Some("None")]
                /\ UNCHANGED <<fs, siblings, plainFiles, chromium, now, env,
                               pc, build, call, ms, run, log, prev, ncalls,
                               answers>>
           ELSE /\ fn' = [fn EXCEPT !.ret = Some("setup")]
                /\ call' = [NoCall EXCEPT !.entry = "setup_regular_build",
                                          !.stage = "main",
                                          !.revision = fn.revision]
                /\ RegularBuild_setup(
                       RegularBuild(JobDir, fn.revision, build_url, "", None,
                                    NoValue, FALSE),
                       now + 1)
                /\ ncalls' = ncalls + 1
                /\ UNCHANGED <<siblings, plainFiles, chromium, ms, prev,
                               answers>>

RegularEntryNext == SetupRegularBuildCall

RegularEntrySpec == RegularEntryInit /\ [][RegularEntryNext]_vars

\* get_rpaths on its own: chrpath found or not, the process ending well
\* with the RPATH of the binary, or failing with the message on either
\* stream, on both or on none
GetRpathsInit ==
    /\ AtRest
    /\ \E chrpath \in BOOLEAN, failed \in BOOLEAN,
          stdout \in {"", NoTagMessage, "elf open failed"},
          stderr \in {"", NoTagMessage, "elf open failed"},
          tag \in {NoValue} \cup {Some(r) : r \in SeqsUpTo(SearchPaths, MaxRpaths) \ {<<>>}} :
        /\ ~failed => (stdout = "" /\ stderr = "")
        /\ fn = [name |-> "get_rpaths",
                 chrpath |-> chrpath,
                 process |-> ChrpathRun(failed, stdout, stderr),
                 tag |-> tag,
                 ret |-> NoValue]

\* the call of get_rpaths
GetRpaths ==
    /\ fn.name = "get_rpaths"
    /\ fn.ret = NoValue
    /\ fn' = [fn EXCEPT !.ret =
                 Some(get_rpaths_call(fn.chrpath, fn.process, fn.tag))]
    /\ StaysAtRest

GetRpathsNext == GetRpaths

GetRpathsSpec == GetRpathsInit /\ [][GetRpathsNext]_vars

(***************************************************************************)
(* Properties                                                              *)
(***************************************************************************)
\* the positions of the log
Positions == 1..Len(log)

\* the setup() in progress has done one of the steps of an extraction
Extracted ==
    \E i \in Positions : log[i].ev \in {"clear", "download", "unpack"}

\* a setup() has returned to the entry point, which has not gone on yet
SetupReturned == pc = "returned"

\* the previous setup() succeeded and the one in progress has its inputs
SameInputsAgain ==
    /\ pc # "idle"
    /\ prev.result = "True"
    /\ prev.params = Params(build)

\* C1: no eviction of _make_space/_evict_build deletes a child of the
\* builds root that is current_build_dir or a path-component prefix of it,
\* the overlay's current_build_dir inside the base directory included.
C1_EvictionSparesCurrentBuild ==
    /\ \A p \in ms.deleted : ~IsPrefix(p, ms.current_build_dir)
    /\ pc \in {"make_space", "make_space_done"} =>
           fs[ms.current_build_dir].exists

\* an overlay's _make_space call has evicted a build
C1_Witness ==
    /\ pc = "make_space_done"
    /\ ms.current_build_dir = RevisionsDir
    /\ build.build_prefix = EXTRA_BUILD_DIR
    /\ ms.deleted # {}

\* C2, as stated: after a setup() has returned success for revision r, by
\* extraction or by the shortcut, REVISION of the build's subtree holds
\* exactly str(r) and the .timestamp that evictions read, the one of the
\* job's directory in the builds root, holds a time at or after the start
\* of that setup().
C2_AsStated ==
    (SetupReturned /\ run.result = "True") =>
        /\ fs[build.build_dir].revision = Some(str(build.revision))
        /\ fs[JobDir].timestamp # NoFile
        /\ ValueOf(fs[JobDir].timestamp) >= run.start_time

\* C2, amended: after a setup() has returned success for revision r,
\* .timestamp of the build's base_build_dir holds a time at or after the
\* start of that setup(), and REVISION of the build's subtree holds exactly
\* str(r) unless a custom build was found to need no update.
C2_RevisionAndTimestampAfterSuccess ==
    (SetupReturned /\ run.result = "True") =>
        /\ (build.cls # "CustomBuild" \/ run.build_update) =>
               fs[build.build_dir].revision = Some(str(build.revision))
        /\ fs[build.base_build_dir].timestamp # NoFile
        /\ ValueOf(fs[build.base_build_dir].timestamp) >= run.start_time

\* a two-digit revision was found on disk by the second setup
C2_Witness ==
    /\ SetupReturned
    /\ run.result = "True"
    /\ ~run.build_update
    /\ build.cls = "SymbolizedBuild"
    /\ build.revision = 10
    /\ fs[build.build_dir].revision = Some(<<"1", "0">>)

\* C3, as stated: a setup() with the inputs of the successful setup()
\* before it extracts nothing and rewrites .timestamp.
C3_AsStated ==
    SameInputsAgain =>
        /\ ~Extracted
        /\ SetupReturned =>
               \E i \in Positions : log[i].ev = "timestamp"

\* C3, amended: a setup() with the inputs of the successful setup() before
\* it, which left no .partial_build in build_dir, extracts nothing, returns
\* success and rewrites .timestamp with its own time.
C3_NoSecondExtraction ==
    (SameInputsAgain /\ ~prev.left_partial) =>
        /\ SetupReturned
        /\ run.result = "True"
        /\ ~Extracted
        /\ \E i \in Positions : log[i].ev = "timestamp"
        /\ fs[build.base_build_dir].timestamp = Some(run.start_time)
        /\ run.start_time = now

\* a regular build unpacked whole is set up a second time
C3_Witness ==
    /\ SameInputsAgain
    /\ ~prev.left_partial
    /\ build.cls = "RegularBuild"
    /\ build.unpack_everything
    /\ SetupReturned
    /\ run.start_time > 1

\* C4: after an extraction into a subtree has succeeded, .partial_build is
\* in the subtree exactly when a single selected target was unpacked; it is
\* not written when the whole archive was unpacked.
C4_PartialMarkerIffSingleTarget ==
    \A d \in AllDirs :
        fs[d].payload \in FuzzTargets \cup {"everything"} =>
            (fs[d].partial <=> fs[d].payload \in FuzzTargets)

\* C5: when the setup() before left .partial_build in a subtree the build
\* unpacks into, a setup() that succeeds has unpacked again, the stored
\* REVISION being the requested one or not.
C5_PartialMarkerForcesExtraction ==
    (SetupReturned /\ run.result = "True" /\ run.had_partial) =>
        \E i \in Positions : log[i].ev = "unpack"

\* the value a .timestamp counts for: 0 when the file is missing
TimestampOrZero(timestamp) ==
    IF timestamp = NoFile THEN 0 ELSE ValueOf(timestamp)

\* a child directory of the builds root that an eviction may delete is left
EligibleBuildRemains ==
    \/ \E k \in TsKeys : siblings[k] > 0
    \/ fs[JobDir].exists /\ ~IsPrefix(JobDir, ms.current_build_dir)

\* the _make_space call has reported insufficient space
ReportedInsufficientSpace ==
    ms.result = "False" /\ ms.logged_error

\* C6: a pass of _make_space that reads free >= requested + MIN_FREE,
\* equality included, ends the call with success and evicts nothing; so
\* _make_space(0, _) succeeds if and only if free >= MIN_FREE.
C6_EnoughAtEquality ==
    (ms.free # NoValue
        /\ ValueOf(ms.free) >= ms.requested_size + min_free_disk_space) =>
        ms.result = "True"

\* C7: each eviction deletes exactly one child directory of the builds
\* root, with all below it: an eligible one of the smallest .timestamp,
\* a missing .timestamp counting as 0; plain files are never deleted.
C7_EvictsOneLeastRecentlyUsed ==
    [][/\ plainFiles' = plainFiles
       /\ ms'.i = ms.i + 1 =>
            /\ fs' = fs
            /\ \E k \in TsKeys :
                /\ siblings[k] > 0
                /\ siblings' = [siblings EXCEPT ![k] = @ - 1]
                /\ \A o \in TsKeys :
                       siblings[o] > 0 =>
                           TimestampOrZero(k) <= TimestampOrZero(o)
       /\ ms'.i = ms.i => (fs' = fs /\ siblings' = siblings)]_vars

\* a build without .timestamp was evicted ahead of builds with one, next
\* to a plain file
C7_Witness ==
    /\ Len(ms.evicted) = 1
    /\ ms.evicted[1] = NoFile
    /\ plainFiles = 1
    /\ \E k \in TsKeys \ {NoFile} : siblings[k] > 0

\* C8, as stated: the builds are deleted in ascending .timestamp order and
\* the call reports insufficient space only once no eligible build remains.
C8_AsStated ==
    /\ \A i \in 1..Len(ms.evicted), j \in 1..Len(ms.evicted) :
           i < j => TimestampOrZero(ms.evicted[i]) <= TimestampOrZero(ms.evicted[j])
    /\ ReportedInsufficientSpace => ~EligibleBuildRemains

\* C8, amended: the builds are deleted in ascending .timestamp order and
\* the call reports insufficient space only once no eligible build remains
\* or MAX_EVICTED_BUILDS builds were deleted by the call.
C8_AscendingUntilNoneOrCap ==
    /\ \A i \in 1..Len(ms.evicted), j \in 1..Len(ms.evicted) :
           i < j => TimestampOrZero(ms.evicted[i]) <= TimestampOrZero(ms.evicted[j])
    /\ Len(ms.evicted) <= MAX_EVICTED_BUILDS
    /\ ReportedInsufficientSpace =>
           \/ ~EligibleBuildRemains
           \/ Len(ms.evicted) = MAX_EVICTED_BUILDS

\* siblings with .timestamp 1, 2 and 3 were deleted in that order, then
\* the call reported insufficient space
C8_Witness ==
    /\ ms.evicted = <<Some(1), Some(2), Some(3)>>
    /\ ReportedInsufficientSpace
    /\ ~EligibleBuildRemains

\* a regular setup() found, at its start, REVISION of its subtree holding
\* the requested revision as an integer and no .partial_build next to it
RegularCacheHit ==
    /\ build.cls = "RegularBuild"
    /\ run.revision_before # NoFile
    /\ int_or_minus_one(ValueOf(run.revision_before)) = build.revision
    /\ ~run.partial_before

\* what a cache hit leaves alone and what it sets
CacheHitEffects ==
    /\ SetupReturned
    /\ run.result = "True"
    /\ ~Extracted
    /\ \A i \in Positions : log[i].ev # "evict"
    /\ fs[build.build_dir].revision = run.revision_before
    /\ env[<<env_prefix(build), "APP_REVISION">>] = Some(build.revision)

\* C9, as stated: on a cache hit a regular setup() returns a build whose
\* build_dir is <base>/revisions, evicts, downloads and unpacks nothing,
\* leaves REVISION as it was and sets APP_REVISION to the revision.
C9_AsStated ==
    RegularCacheHit =>
        /\ build.build_dir = build.base_build_dir \o <<"revisions">>
        /\ CacheHitEffects

\* C9, amended: on a cache hit a regular setup() returns a build whose
\* build_dir is <base>/revisions, or <base>/<prefix> for a build with a
\* prefix, evicts, downloads and unpacks nothing, leaves REVISION as it was
\* and sets APP_REVISION, under the build's prefix, to the revision.
C9_CacheHitFrame ==
    RegularCacheHit =>
        /\ build.build_dir =
               build.base_build_dir \o
                   (IF build.build_prefix = "" THEN <<"revisions">>
                    ELSE <<build.build_prefix>>)
        /\ CacheHitEffects

\* an overlay was found on disk at the requested revision
C9_Witness ==
    /\ RegularCacheHit
    /\ build.build_prefix = EXTRA_BUILD_DIR
    /\ build.build_dir = ExtraDir
    /\ SetupReturned

\* the steps i and j of the log are about the same archive
SameArchive(i, j) == log[i].dir = log[j].dir

\* the existence check is ahead of every eviction, a download is ahead of
\* the unpack of its archive and every eviction is ahead of that unpack
OrderAroundEvictions ==
    \A i \in Positions, j \in Positions :
        /\ (log[i].ev = "exists" /\ log[j].ev = "evict") => i < j
        /\ (log[i].ev = "download" /\ log[j].ev = "unpack"
                /\ SameArchive(i, j)) => i < j
        /\ (log[i].ev = "evict" /\ log[j].ev = "unpack"
                /\ SameArchive(i, j)) => i < j

\* C10, as stated: in one setup of one archive the existence check is
\* ahead of every eviction, every eviction is ahead of the download and
\* the download is ahead of every unpack.
C10_AsStated ==
    /\ OrderAroundEvictions
    /\ \A i \in Positions, j \in Positions :
           (log[i].ev = "evict" /\ log[j].ev = "download"
                /\ SameArchive(i, j)) => i < j

\* C10, amended: in one setup of one archive the existence check is ahead
\* of every eviction, the evictions for the archive's size are ahead of the
\* download, the download is ahead of the evictions for the unpacked size
\* and of the unpack, and every eviction is ahead of the unpack.
C10_OrderOfSteps ==
    /\ OrderAroundEvictions
    /\ \A i \in Positions, j \in Positions :
           (log[i].ev = "evict" /\ log[j].ev = "download"
                /\ SameArchive(i, j)) =>
               (i < j <=> log[i].pass = "budget_download")

\* a build was evicted for the unpacked size after the download of the
\* archive, which was then unpacked
C10_Witness ==
    \E i \in Positions, j \in Positions, k \in Positions :
        /\ i < j
        /\ j < k
        /\ log[i].ev = "download"
        /\ log[j].ev = "evict"
        /\ log[j].pass = "budget_unpack"
        /\ log[k].ev = "unpack"
        /\ SameArchive(i, j)
        /\ SameArchive(j, k)

\* the setup() in progress has ended without success
SetupFailed == run.result \in {"False", "raised", "exit"}

\* C11: in one setup() every unpack is ahead of the environment publish and
\* the publish is ahead of the update of .timestamp; a setup() whose
\* extraction failed publishes nothing and leaves .timestamp alone.
C11_PublishThenTimestamp ==
    /\ \A i \in Positions, j \in Positions :
           /\ (log[i].ev = "unpack" /\ log[j].ev = "publish") => i < j
           /\ (log[i].ev = "publish" /\ log[j].ev = "timestamp") => i < j
           /\ log[j].ev = "timestamp" => \E k \in Positions : log[k].ev = "publish"
    /\ SetupFailed =>
           /\ \A i \in Positions : log[i].ev \notin {"publish", "timestamp"}
           /\ env[<<env_prefix(build), "APP_PATH">>] = Some(EmptyString)
           /\ env[<<env_prefix(build), "APP_PATH_DEBUG">>] = Some(EmptyString)
           /\ \/ fs[build.base_build_dir].timestamp = NoFile
              \/ ValueOf(fs[build.base_build_dir].timestamp) < run.start_time

\* an unpack failed in a job directory that an earlier setup() had stamped
C11_Witness ==
    /\ SetupReturned
    /\ run.result = "False"
    /\ \E i \in Positions : log[i].ev = "unpack"
    /\ fs[build.base_build_dir].timestamp # NoFile

\* C12: the dispatcher hands its caller the build when the setup succeeded
\* and None on every failure, the failure of a download or of an archive
\* in any variant included; no such failure leaves it as an exception.
C12_BuildOrNone ==
    /\ prev.returned \in {"none", "pending", "build", "None"}
    /\ (SetupReturned /\ ~goes_on_with_overlay) =>
           entry_result = (IF run.result = "True" /\ call.extra # "missing"
                           THEN "build" ELSE "None")

\* a symbolized setup with a release URL and no debug URL has returned True
ReleaseOnlySucceeded ==
    /\ SetupReturned
    /\ build.cls = "SymbolizedBuild"
    /\ build.release_build_url # NoValue
    /\ build.debug_build_url = NoValue
    /\ run.result = "True"

C16_NoUrlsFails ==
    (/\ SetupReturned
     /\ build.cls = "SymbolizedBuild"
     /\ build.release_build_url = NoValue
     /\ build.debug_build_url = NoValue) => run.result = "False"

\* C17: when _make_space reports failure to its caller, in any variant,
\* the caller clears all data directories of the worker and ends the
\* process, and the archive the budget was for is not unpacked.
C17_BudgetFailureClearsAndExits ==
    run.result = "exit" =>
        /\ pc = "exited"
        /\ \A d \in DOMAIN fs : fs[d] = Absent
        /\ \A i \in Positions :
               ~(log[i].ev = "unpack" /\ log[i].dir = run.unpack_dir)

\* the last setup() of a setup_regular_build call under a configured
\* EXTRA_BUILD_BUCKET_PATH has ended
RegularWithExtraEnds ==
    /\ SetupReturned
    /\ call.entry = "setup_regular_build"
    /\ call.extra # "unset"
    /\ ~goes_on_with_overlay

\* the build that was just set up is the overlay of the call's revision,
\* inside the main build's build_dir
OverlayWasSetUp ==
    /\ call.stage = "overlay"
    /\ call.extra = "found"
    /\ run.result = "True"
    /\ build.base_build_dir = RevisionsDir
    /\ build.build_dir = ExtraDir
    /\ build.build_prefix = EXTRA_BUILD_DIR
    /\ build.revision = call.revision
    /\ prev.result = "True"
    /\ prev.params.build_dir = RevisionsDir

\* C18: with EXTRA_BUILD_BUCKET_PATH configured, setup_regular_build hands
\* back the main build exactly when the overlay of the same revision, based
\* in the main build's build_dir under the prefix EXTRA_BUILD_DIR, was set
\* up; with no overlay URL, or with an overlay whose setup failed, it hands
\* back None although the main build was set up.
C18_OverlayFailureFailsAll ==
    RegularWithExtraEnds =>
        /\ entry_result = "build" <=> OverlayWasSetUp
        /\ ~OverlayWasSetUp => entry_result = "None"
        /\ call.extra = "missing" => call.stage = "main"

C18_Witness ==
    /\ RegularWithExtraEnds
    /\ call.stage = "overlay"
    /\ run.result = "False"
    /\ prev.result = "True"
    /\ fs[RevisionsDir].revision = Some(str(call.revision))
    /\ entry_result = "None"

\* C14: _setup_build takes the first rule that matches, in this order:
\* CUSTOM_BINARY set, the custom build, whatever the revision; else
\* FUZZ_TARGET_BUILD_BUCKET_PATH set, the split-target build; else a
\* revision above 0, the regular build at that revision; else the trunk
\* build.
C14_DispatchOrder ==
    (fn.name = "_setup_build" /\ fn.ret # NoValue) =>
        LET r == ValueOf(fn.ret)
            custom == fn.custom_binary = Some(TRUE)
            split_targets == fn.fuzz_target_build_bucket_path \notin {NoValue, Some("")}
            positive == fn.revision # NoValue /\ ValueOf(fn.revision) > 0
        IN  /\ custom =>
                /\ r.variant = "setup_custom_binary"
                /\ r.revision = NoValue
            /\ (~custom /\ split_targets) =>
                /\ r.variant = "_setup_split_targets_build"
                /\ r.bucket_path = fn.fuzz_target_build_bucket_path
                /\ r.revision = fn.revision
                /\ r.fuzz_target = fn.fuzz_target
            /\ (~custom /\ ~split_targets /\ positive) =>
                /\ r.variant = "setup_regular_build"
                /\ r.revision = fn.revision
                /\ r.fuzz_target = fn.fuzz_target
            /\ (~custom /\ ~split_targets /\ ~positive) =>
                /\ r.variant = "setup_trunk_build"
                /\ r.fuzz_target = fn.fuzz_target

C14_Witness ==
    /\ fn.name = "_setup_build"
    /\ fn.ret # NoValue
    /\ fn.custom_binary = Some(TRUE)
    /\ fn.fuzz_target_build_bucket_path \notin {NoValue, Some("")}
    /\ fn.revision = Some(MaxDispatchRevision)
    /\ ValueOf(fn.ret).variant = "setup_custom_binary"

\* the lines of targets.list whose base name is among the listed blobs;
\* none when the file is missing
FilteredTargets ==
    IF fn.data = NoValue THEN {}
    ELSE {ValueOf(fn.data)[i] : i \in
              {j \in DOMAIN ValueOf(fn.data) :
                   ValueOf(fn.data)[j][1] \in fn.listed_targets}}

\* C13: whatever targets.list holds (an empty or a missing file included)
\* and whatever the listing, a split-target request for a target that is
\* not in the filtered targets list raises BuildNotFound, with no change to
\* the disk before it.
C13_UnlistedTargetNotFound ==
    (/\ fn.name = "_setup_split_targets_build"
     /\ fn.ret # NoValue
     /\ fn.fuzz_target # NoValue
     /\ ValueOf(fn.fuzz_target) \notin FilteredTargets) =>
        /\ ValueOf(fn.ret).outcome = "BuildNotFoundError"
        /\ fs = [d \in AllDirs |-> Absent]
        /\ log = <<>>

\* get_build_urls_list has returned a list
UrlsListReturned ==
    /\ fn.name = "get_build_urls_list"
    /\ fn.ret # NoValue
    /\ ValueOf(fn.ret).outcome = "returned"

\* the revisions of the URLs that were returned, in their order
ReturnedRevisions ==
    [i \in DOMAIN ValueOf(fn.ret).urls |-> ValueOf(fn.ret).urls[i][2]]

\* C20: get_build_urls_list returns only URLs whose name matches the
\* template of the bucket path; they are in the order of their revisions
\* as tuples of the integers between the dots, upwards when reverse is
\* false and downwards when it is true; when a revision is no such tuple,
\* and only then, they are in the order of the revision strings.
C20_SortedByRevision ==
    UrlsListReturned =>
        LET out == ValueOf(fn.ret).urls
            revs == ReturnedRevisions
            all_parse == \A i \in DOMAIN fn.build_urls :
                             fn.build_urls[i][1] = "build-"
                                 => parses(fn.build_urls[i][2])
            below(x, y) == IF all_parse
                           THEN list_less(int_list(x), int_list(y))
                           ELSE str_less(x, y)
        IN  /\ \A i \in DOMAIN out :
                   /\ out[i][1] = "build-"
                   /\ \E k \in DOMAIN fn.build_urls : fn.build_urls[k] = out[i]
            /\ fn.bucket_path # NoValue =>
                   \A k \in DOMAIN fn.build_urls :
                       fn.build_urls[k][1] = "build-"
                           => \E i \in DOMAIN out : out[i] = fn.build_urls[k]
            /\ \A i, j \in DOMAIN out :
                   i < j => IF fn.reverse
                            THEN ~below(revs[i], revs[j])
                            ELSE ~below(revs[j], revs[i])

C20_Witness ==
    /\ UrlsListReturned
    /\ ~fn.reverse
    /\ Len(fn.build_urls) = 3
    /\ ReturnedRevisions = << <<"9">>, <<"1", "0">> >>

\* the revisions the k-th bucket holds a build for
RevisionsIn(k) ==
    {DigitsValue(fn.listings[k][i][2]) :
         i \in {j \in DOMAIN fn.listings[k] : fn.listings[k][j][1] = "build-"}}

\* the revisions of the first bucket that every other bucket holds too
CommonRevisions ==
    {r \in RevisionsIn(1) : \A k \in DOMAIN fn.listings : r \in RevisionsIn(k)}

\* C19: _get_latest_revision returns the greatest revision of the first
\* bucket path that every other bucket path holds too, and None when there
\* is no such revision or a listing holds no build; setup_trunk_build sets
\* up the regular build of exactly that revision.
C19_LatestCommonRevision ==
    (fn.name = "setup_trunk_build" /\ fn.ret # NoValue) =>
        /\ IF \/ fn.listings = <<>>
              \/ \E k \in DOMAIN fn.listings : RevisionsIn(k) = {}
              \/ CommonRevisions = {}
           THEN fn.latest_revision = NoValue
           ELSE /\ fn.latest_revision # NoValue
                /\ ValueOf(fn.latest_revision) \in CommonRevisions
                /\ \A r \in CommonRevisions : r <= ValueOf(fn.latest_revision)
        /\ fn.regular_build_revision = fn.latest_revision

C19_Witness ==
    /\ fn.name = "setup_trunk_build"
    /\ fn.ret # NoValue
    /\ Len(fn.listings) = MaxBucketPaths
    /\ RevisionsIn(1) = {9, 11}
    /\ CommonRevisions = {9}
    /\ fn.regular_build_revision = Some(9)

\* the listing holds two objects that match the template with the same
\* revision
TwoObjectsOneRevision ==
    \E i, j \in DOMAIN fn.build_urls :
        /\ i # j
        /\ fn.build_urls[i][1] = "build-"
        /\ fn.build_urls[j][1] = "build-"
        /\ fn.build_urls[i][2] = fn.build_urls[j][2]

\* C21: when the listing of a bucket holds two objects that match the
\* template with the same revision, get_build_urls_list raises BadState
\* and returns no list; nothing was downloaded, evicted or changed in the
\* build directories by it.
C21_DuplicateRevisionIsBadState ==
    (/\ fn.name = "get_build_urls_list"
     /\ fn.ret # NoValue
     /\ fn.bucket_path # NoValue
     /\ TwoObjectsOneRevision) =>
        /\ ValueOf(fn.ret).outcome = "BadStateError"
        /\ ValueOf(fn.ret).urls = <<>>
        /\ fs = [d \in AllDirs |-> Absent]
        /\ log = <<>>
        /\ pc = "idle"

C21_Witness ==
    /\ fn.name = "get_build_urls_list"
    /\ fn.ret # NoValue
    /\ TwoObjectsOneRevision
    /\ Len(fn.build_urls) = 3
    /\ \E i \in DOMAIN fn.build_urls : fn.build_urls[i][2] = <<"1", "0">>
    /\ ValueOf(fn.ret).outcome = "BadStateError"

C23_PatchIsIdempotent ==
    (fn.name = "_patch_rpath" /\ fn.patches >= 2) => fn.tag = fn.after_first

\* C24: when setup_build returns, with a build or with None, FUZZ_TARGET
\* is the requested fuzz target if one was requested, and is what it was
\* before the call if none was.
C24_FuzzTargetPublished ==
    (fn.name = "setup_build" /\ fn.stage = "returned") =>
        IF fn.fuzz_target \in FuzzTargets
        THEN fn.FUZZ_TARGET = Some(fn.fuzz_target)
        ELSE fn.FUZZ_TARGET = fn.before

C24_Witness ==
    /\ fn.name = "setup_build"
    /\ fn.stage = "returned"
    /\ fn.result = "None"
    /\ fn.fuzz_target \in FuzzTargets
    /\ fn.before = Some("target_b")
    /\ fn.FUZZ_TARGET = Some(fn.fuzz_target)

\* C25: one _make_space call deletes at most MAX_EVICTED_BUILDS (100)
\* builds and comes to its end, whatever the builds root holds and
\* whatever the free-space readings are.
C25_BoundedAndTerminates ==
    /\ [](Len(ms.evicted) <= MAX_EVICTED_BUILDS /\ ms.i <= MAX_EVICTED_BUILDS)
    /\ <>(pc = "make_space_done" /\ ms.result \in {"True", "False", "TypeError"})

\* the call has ended after MAX_EVICTED_BUILDS deletions with a build
\* still there to delete
C25_Witness ==
    /\ pc = "make_space_done"
    /\ Len(ms.evicted) = MAX_EVICTED_BUILDS
    /\ ms.result = "False"
    /\ \E k \in TsKeys : siblings[k] > 0

\* C26: a _make_space call in which a free-space query fails, the query
\* after the last permitted eviction included, ends by returning failure;
\* it raises nothing and deletes nothing after the failed query.
C26_FailedQueryReturnsFailure ==
    (ms.free = NoValue /\ ms.result \notin {"none", "running"}) =>
        /\ pc = "make_space_done"
        /\ ms.result = "False"

\* C27: once a setup() that took the download path has ended, the local
\* archive file is in none of the directories it downloaded into, however
\* the acquisition ended: unpacked, download failed or partial, open
\* failed, unpack failed.
C27_NoArchiveLeft ==
    (pc \in {"returned", "exited"} /\ build.cls \in {"RegularBuild", "SymbolizedBuild"}) =>
        \A i \in Positions :
            log[i].ev = "download" => ~fs[log[i].dir].archive

\* _unpack_build is at work on an archive whose directory it has cleared
UnpackingArchive ==
    /\ build.cls \in {"RegularBuild", "SymbolizedBuild"}
    /\ pc \in {"budget_download", "download", "budget_unpack", "unpack",
               "make_space", "make_space_done"}

\* the HTTP URL _unpack_build of the build in progress hands on
HttpUrlOfArchive ==
    IF build.cls = "RegularBuild" THEN build.http_build_url ELSE NoValue

\* the archive in progress was downloaded to its directory
Downloaded ==
    \E i \in Positions :
        log[i].ev = "download" /\ log[i].dir = run.unpack_dir

\* _make_space is at work for the size of the archive in progress
BudgetOfArchiveSize ==
    pc \in {"make_space", "make_space_done"} /\ ms.caller = "budget_download"

SymbolizedWithBothUrls ==
    /\ build.cls = "SymbolizedBuild"
    /\ build.release_build_url # NoValue
    /\ build.debug_build_url # NoValue

\* the event is a step of the extraction of the archive of `kind`
StepOf(i, kind) ==
    /\ log[i].ev \in {"clear", "evict", "download", "unpack"}
    /\ log[i].dir = build.build_dir \o <<kind>>

\* C29: in a symbolized setup with both URLs every step of the release
\* archive is ahead of every step of the debug archive, which starts only
\* after the release archive was unpacked; the build type is 'release' while
\* the release archive is extracted, 'debug' while the debug archive is, and
\* stays 'debug' once a step of the debug archive was made.
C29_ReleaseThenDebug ==
    SymbolizedWithBothUrls =>
        /\ \A i \in Positions, j \in Positions :
               (StepOf(i, "release") /\ StepOf(j, "debug")) => i < j
        /\ \A j \in Positions :
               StepOf(j, "debug") =>
                   \E i \in 1..(j - 1) :
                       StepOf(i, "release") /\ log[i].ev = "unpack"
        /\ UnpackingArchive =>
               build.build_type =
                   (IF run.unpack_dir = build.build_dir \o <<"release">>
                    THEN "release" ELSE "debug")
        /\ (\E j \in Positions : StepOf(j, "debug")) =>
               build.build_type = "debug"

\* both archives of a symbolized build were unpacked and the setup is at
\* its end
C29_Witness ==
    /\ SymbolizedWithBothUrls
    /\ pc = "finish"
    /\ build.build_type = "debug"
    /\ \E i \in Positions, j \in Positions :
           /\ StepOf(i, "release") /\ log[i].ev = "unpack"
           /\ StepOf(j, "debug") /\ log[j].ev = "unpack"

\* the publish of a symbolized build with both URLs has returned
BothPublished ==
    /\ fn.name = "SymbolizedBuild.setup"
    /\ fn.release_build_url # NoValue
    /\ fn.debug_build_url # NoValue
    /\ fn.stage = "returned"

\* the directories the second publish searches that hold the file name
DebugSearchHolds(filename) ==
    IF filename \in fn.files[debug_build_dir] THEN Some(debug_build_dir)
    ELSE IF fn.fuzzer_directory # NoValue /\ filename \in fn.files[fuzzer_dir]
    THEN Some(fuzzer_dir)
    ELSE NoValue

\* C30: in a symbolized setup with both URLs the environment publish runs
\* exactly twice, for APP_PATH over release/ and then for APP_PATH_DEBUG
\* over debug/; the second publish leaves APP_PATH as the first left it,
\* and APP_DIR and LLVM_SYMBOLIZER_PATH end with what the search of the
\* second publish gives: the directory of the application and the
\* llvm-symbolizer it comes on, the empty string and the default tool when
\* it comes on none, whatever the first publish had set.
C30_SecondPublishOverrides ==
    BothPublished =>
        /\ fn.published = << <<"APP_PATH", release_build_dir>>,
                             <<"APP_PATH_DEBUG", debug_build_dir>> >>
        /\ fn.environment[<<"", "APP_PATH">>] =
               fn.after_release[<<"", "APP_PATH">>]
        /\ fn.environment[<<"", "APP_DIR">>] =
               (IF DebugSearchHolds("app_name") # NoValue
                THEN DebugSearchHolds("app_name")
                ELSE Some(EmptyString))
        /\ fn.environment[<<"", "LLVM_SYMBOLIZER_PATH">>] =
               (IF /\ DebugSearchHolds("llvm-symbolizer") # NoValue
                   /\ ~fn.use_default_llvm_symbolizer
                THEN Some(ValueOf(DebugSearchHolds("llvm-symbolizer"))
                              \o <<"llvm-symbolizer">>)
                ELSE Some(default_tool_path))

\* both publishes found their application and their llvm-symbolizer:
\* APP_PATH names the release binary, APP_DIR and LLVM_SYMBOLIZER_PATH the
\* debug build
C30_Witness ==
    /\ BothPublished
    /\ Len(fn.published) = 2
    /\ fn.environment[<<"", "APP_PATH">>] =
           Some(release_build_dir \o <<"app_name">>)
    /\ fn.after_release[<<"", "APP_DIR">>] = Some(release_build_dir)
    /\ fn.environment[<<"", "APP_DIR">>] = Some(debug_build_dir)
    /\ fn.environment[<<"", "LLVM_SYMBOLIZER_PATH">>] =
           Some(debug_build_dir \o <<"llvm-symbolizer">>)

\* the steps after the extraction, in the log of one setup()
Phase(i) ==
    CASE log[i].ev = "revision" -> 5
      [] log[i].ev = "publish" -> 6
      [] log[i].ev \in {"timestamp", "patch_rpaths"} -> 7
      [] OTHER -> 0

\* a setup() that extracted has come to its end
ExtractedAndSucceeded ==
    /\ SetupReturned
    /\ run.result = "True"
    /\ run.build_update

\* C31, as stated: in a setup that extracts, the REVISION file is written
\* before the environment publish, and the timestamp update and the RPATH
\* patching come last.
C31_AsStated ==
    ExtractedAndSucceeded =>
        \A i \in Positions, j \in Positions :
            (Phase(i) # 0 /\ Phase(j) # 0 /\ Phase(i) < Phase(j)) => i < j

\* C31, amended: in a setup that extracts, the environment publish comes
\* after every unpack and before the write of the REVISION file; the
\* REVISION file is written before the timestamp update, and the RPATH
\* patching comes last.
C31_PublishThenRevision ==
    ExtractedAndSucceeded =>
        /\ \E i \in Positions : log[i].ev = "revision"
        /\ \A i \in Positions, j \in Positions :
               /\ (log[i].ev = "unpack" /\ log[j].ev = "publish") => i < j
               /\ (log[i].ev = "publish" /\ log[j].ev = "revision") => i < j
               /\ (log[i].ev = "revision" /\ log[j].ev = "timestamp") => i < j
               /\ (log[i].ev = "timestamp" /\ log[j].ev = "patch_rpaths")
                      => i < j
               /\ log[j].ev = "revision" =>
                      \E k \in Positions : log[k].ev = "publish"

\* a setup() unpacked its archive, published, wrote REVISION, updated the
\* timestamp and patched the RPATHs
C31_Witness ==
    /\ ExtractedAndSucceeded
    /\ \E i \in Positions : log[i].ev = "unpack"
    /\ \E i \in Positions : log[i].ev = "revision"
    /\ log[Len(log)].ev = "patch_rpaths"

\* the directories the archives of the build with REVISION in d go to
UnpackDirsOf(d) == IF d = SymbolizedDir THEN {ReleaseDir, DebugDir} ELSE {d}

\* an extraction into u is between the clearing of u and its last step
ExtractionInProgress(u) ==
    /\ pc \in {"budget_download", "download", "budget_unpack", "unpack",
               "custom_unpack", "make_space", "make_space_done"}
    /\ run.unpack_dir = u

\* no directory with a REVISION file holds a half-extracted build or one
\* that is being extracted
RevisionMeansReady ==
    \A d \in AllDirs :
        fs[d].revision # NoFile =>
            \A u \in UnpackDirsOf(d) :
                /\ fs[u].payload # "incomplete"
                /\ ~fs[u].archive
                /\ ~ExtractionInProgress(u)

\* a step that writes REVISION in d ends a successful setup() of the build
\* of d that cleared and filled d in this setup(), and writes its revision
RevisionWrittenAfterExtraction ==
    \A d \in AllDirs :
        (fs'[d].revision # NoFile /\ fs'[d].revision # fs[d].revision) =>
            /\ build'.build_dir = d
            /\ fs'[d].revision = Some(str(build'.revision))
            /\ run'.result = "True"
            /\ run'.build_update
            /\ \E i \in 1..Len(log') :
                   /\ log'[i].ev = "clear"
                   /\ log'[i].dir \in UnpackDirsOf(d) \cup {d}
            /\ \A u \in UnpackDirsOf(d) : fs'[u].payload # "incomplete"

\* a step that changes the files of d leaves d without REVISION
ContentChangesWithoutRevision ==
    \A d \in AllDirs : \A u \in UnpackDirsOf(d) :
        fs'[u].payload # fs[u].payload => fs'[d].revision = NoFile

\* C32: a directory holds REVISION with value r only after an extraction
\* for revision r that completed: REVISION is written only by the end of a
\* successful setup() that extracted, every extraction starts by removing
\* it, and an extraction in progress or failed leaves the directory
\* without REVISION.
C32_RevisionOnlyAfterExtraction ==
    /\ []RevisionMeansReady
    /\ [][RevisionWrittenAfterExtraction]_vars
    /\ [][ContentChangesWithoutRevision]_vars

\* an extraction failed in a directory that held REVISION before the
\* setup(): the directory is left without REVISION
C32_Witness ==
    /\ SetupReturned
    /\ run.result = "False"
    /\ run.revision_before # NoFile
    /\ fs[build.build_dir].revision = NoFile
    /\ \E u \in UnpackDirsOf(build.build_dir) : fs[u].payload = "incomplete"

\* C33: with two provisioners on one builds root the eviction of a
\* provisioner spares the base directory that provisioner itself is
\* materializing, and nothing else: whenever the base directory of a
\* provisioner at work is gone, the eviction of the other provisioner
\* deleted it.
C33_ProtectionIsPerProcess ==
    fn.name = "two_provisioners" =>
        /\ \A e \in fn.evictions : e.path # base_build_dir_of(e.by)
        /\ \A p \in Provisioners :
               (/\ materializing(fn.prov[p])
                /\ ~fn.builds[base_build_dir_of(p)].exists) =>
                   \E e \in fn.evictions :
                       /\ e.by # p
                       /\ e.path = base_build_dir_of(p)
                       /\ p \in e.at_work

\* the eviction of one provisioner has deleted the base directory of the
\* other, which is about to unpack into it
C33_Witness ==
    /\ fn.name = "two_provisioners"
    /\ \E p \in Provisioners :
           /\ fn.prov[p].pc = "unpack"
           /\ ~fn.builds[base_build_dir_of(p)].exists
           /\ \E e \in fn.evictions :
                  e.by # p /\ e.path = base_build_dir_of(p) /\ p \in e.at_work

\* a setup() of the build has done its pre-setup and has not succeeded
SetupNotSucceeded ==
    /\ build.cls # "none"
    /\ run.result \in {"running", "False", "raised", "exit"}

\* C34: from the pre-setup of a setup() until its success, <prefix>APP_PATH
\* and <prefix>APP_PATH_DEBUG are the empty string and <prefix>APP_REVISION
\* is the requested revision: during the existence check and the
\* extraction, and whenever the setup() has ended in failure, whatever an
\* earlier setup() had published.
C34_FailedSetupLeavesPathsEmpty ==
    SetupNotSucceeded =>
        /\ env[<<env_prefix(build), "APP_PATH">>] = Some(EmptyString)
        /\ env[<<env_prefix(build), "APP_PATH_DEBUG">>] = Some(EmptyString)
        /\ env[<<env_prefix(build), "APP_REVISION">>] = Some(build.revision)

\* a setup() has failed after an earlier call had set up the same kind of
\* build and published its path
C34_Witness ==
    /\ SetupReturned
    /\ run.result = "False"
    /\ prev.result = "True"
    /\ prev.params.cls = build.cls
    /\ prev.params.build_prefix = build.build_prefix
    /\ env[<<env_prefix(build), "APP_PATH">>] = Some(EmptyString)
    /\ env[<<env_prefix(build), "APP_DIR">>] \notin {NoValue, Some(EmptyString)}

\* C35: the size asked of the disk budget manager before an unpack is the
\* size of the files the unpack extracts, whatever the unpack-everything
\* setting and the requested fuzz target.
C35_BudgetIsUnpackedSize ==
    (fn.name = "_unpack_build" /\ fn.stage = "unpacked") =>
        fn.requested_size = fn.unpacked

\* C37: on the cache-hit path of RegularBuild.setup the assertion that the
\* fuzz-target list is still unset holds, for every sequence of setup()
\* calls and fuzz_targets reads on one build object.
C37_AssertionHolds ==
    fn.name = "RegularBuild" => ~fn.assertion_failed

\* a step that writes .timestamp in d is the _post_setup_success of the
\* provisioner whose base directory is d
TimestampWrittenBySuccess ==
    \A d \in RaceDirs :
        (/\ fn'.builds[d].timestamp # NoFile
         /\ fn'.builds[d].timestamp # fn.builds[d].timestamp) =>
            \E p \in Provisioners :
                /\ base_build_dir_of(p) = d
                /\ fn.prov[p].pc = "post_setup"
                /\ fn'.prov[p].pc = "idle"

\* a setup() that failed has left the .timestamp of its base directory as
\* it was, when the directory was not deleted under it
FailureKeepsTimestamp ==
    \A p \in Provisioners :
        fn.prov[p].pc = "failed" =>
            \/ fn.builds[base_build_dir_of(p)].timestamp =
                   fn.prov[p].timestamp_before
            \/ /\ fn.builds[base_build_dir_of(p)].timestamp = NoFile
               /\ \E e \in fn.evictions :
                      e.by # p /\ e.path = base_build_dir_of(p)

\* an eviction that deletes a base directory with .timestamp had no
\* candidate without .timestamp
UnstampedEvictedFirst ==
    \A e \in fn.evictions : e.timestamp # NoFile => ~e.unstamped

NoUrlForRevision ==
    \/ fn.bucket_path = NoValue
    \/ \A i \in DOMAIN fn.build_urls :
           ~(/\ fn.build_urls[i][1] = "build-"
             /\ DigitsValue(fn.build_urls[i][2]) = fn.revision)

\* C38: when the listing of the bucket path is empty or holds no URL of
\* the requested revision, setup_regular_build returns None before any
\* build object is set up: the directories, the REVISION and .timestamp
\* files and the environment are as they were before the call, nothing was
\* evicted, and no setup() has run
C38_NoUrlNoSetup ==
    (fn.name = "setup_regular_build" /\ NoUrlForRevision) =>
        /\ fn.ret \in {NoValue, Some("None")}
        /\ fs = fn.fs_before
        /\ env = fn.env_before
        /\ siblings = [k \in TsKeys |-> 0]
        /\ build = NoBuild
        /\ log = <<>>

\* the call has returned None for a listing that holds other revisions,
\* over a tree that holds an earlier build
C38_Witness ==
    /\ fn.name = "setup_regular_build"
    /\ NoUrlForRevision
    /\ fn.ret = Some("None")
    /\ fn.bucket_path # NoValue
    /\ fn.build_urls # <<>>
    /\ fs[RevisionsDir].revision # NoFile
    /\ fs[JobDir].timestamp # NoFile

\* a step that creates the keys file writes the whole listing of the bucket
\* and is no call in which the listing raised
KeysFileWrittenWhole ==
    (/\ fn.name = "keys_file"
     /\ fn.keys_file = NoFile
     /\ fn'.keys_file # NoFile) =>
        /\ fn'.keys_file = Some(fn.remote)
        /\ fn'.last # Some(ListingRaised)

\* C39: a keys file that exists holds the complete output of a listing
\* that ran to its end: a listing that fails part-way leaves no keys file
\* for a later get_build_urls_list call to reuse
C39_KeysFileIsComplete == [][KeysFileWrittenWhole]_vars

\* get_rpaths was called with chrpath at hand and the process failed
FailedRead ==
    /\ fn.name = "get_rpaths"
    /\ fn.ret # NoValue
    /\ fn.chrpath
    /\ fn.process.failed

====
